---------------------------- MODULE Spec2Model ----------------------------
(***************************************************************************)
(* A model of cwparse, the line classifier for CodeWarrior linker map      *)
(* files.  Text is a sequence of one-character strings.  Every nom parser  *)
(* of the source is an operator from the remaining input to a result       *)
(* record: Fail, or Ok(value, rest).  Every unsigned integer (u8, u32) is  *)
(* kept as a pair <<hi, lo>> of 16-bit halves, its width enforced where    *)
(* the source converts the digits.                                         *)
(***************************************************************************)
EXTENDS Integers, Sequences, FiniteSets, TLC

VARIABLES
    input,       \* the text handed to line, identifier or section_name
    terminator,  \* the line terminator appended to it
    result,      \* what the function returned
    pc,          \* "start", then the name of the function applied
    text,        \* parse_lines: the lines of the input
    slots,       \* parse_lines: the mapped result of each line, by position
    saved,       \* parse_lines: the first error saved by a worker
    collected,   \* parse_lines: the value returned
    section,     \* progress: the section the walk is in, None outside one
    code_size,   \* progress: the total of the code sections so far
    data_size,   \* progress: the total of the data sections so far
    walked       \* progress: how many of the lines the loop has taken

\* the locals of the walk in progress
walk == <<section, code_size, data_size, walked>>

vars == <<input, terminator, result, pc, text, slots, saved, collected, walk>>

---------------------------------------------------------------------------
(* Bounds of the input sets.                                               *)

\* longest text drawn over IdentAlphabet for the identifier grammar
MaxIdentLen == 3

\* longest free part set between a name and its suffix in an identifier
MaxMidLen == 1

\* most characters cut from the end of a sample line
MaxCut == 6

\* longest text (in lines) handed to parse_lines
MaxLines == 3

\* widest indentation set before the depth of a node line
MaxIndent == 3

\* most leading spaces of a text handed to padded
MaxPad == 4

\* widest field asked of padded, besides the widths the grammar uses
MaxWidth == 4

---------------------------------------------------------------------------
(* Characters.                                                             *)

Lower ==
    {"a", "b", "c", "d", "e", "f", "g", "h", "i", "j", "k", "l", "m",
     "n", "o", "p", "q", "r", "s", "t", "u", "v", "w", "x", "y", "z"}

Upper ==
    {"A", "B", "C", "D", "E", "F", "G", "H", "I", "J", "K", "L", "M",
     "N", "O", "P", "Q", "R", "S", "T", "U", "V", "W", "X", "Y", "Z"}

Digit == {"0", "1", "2", "3", "4", "5", "6", "7", "8", "9"}

Alpha == Lower \cup Upper

Alnum == Alpha \cup Digit

HexDigit == Digit \cup {"a", "b", "c", "d", "e", "f"}
                  \cup {"A", "B", "C", "D", "E", "F"}

HexLower ==
    <<"0", "1", "2", "3", "4", "5", "6", "7", "8", "9",
      "a", "b", "c", "d", "e", "f">>

HexUpper ==
    <<"0", "1", "2", "3", "4", "5", "6", "7", "8", "9",
      "A", "B", "C", "D", "E", "F">>

\* char::to_digit: the value of a digit in either letter case
DigitValue(c) == CHOOSE v \in 0..15 : HexLower[v + 1] = c \/ HexUpper[v + 1] = c

\* '\x00'..='\x1F' as far as they occur in the input texts
Control == {"\t", "\r", "\n"}

AsciiWhitespace == {" ", "\t", "\r", "\n"}

---------------------------------------------------------------------------
(* Tags: the literal texts of the grammar.                                 *)

T_crlf ==
    <<"\r", "\n">>

T_link_map_of ==
    <<"L", "i", "n", "k", " ", "m", "a", "p", " ", "o", "f", " ">>

T_found_as_linker ==
    <<" ", "f", "o", "u", "n", "d", " ", "a", "s", " ", "l", "i", "n", "k",
    "e", "r", " ", "g", "e", "n", "e", "r", "a", "t", "e", "d", " ", "s",
    "y", "m", "b", "o", "l">>

T_dup ==
    <<">", ">", ">", " ">>

T_unreferenced ==
    <<"U", "N", "R", "E", "F", "E", "R", "E", "N", "C", "E", "D", " ", "D",
    "U", "P", "L", "I", "C", "A", "T", "E", " ">>

T_found_in ==
    <<"f", "o", "u", "n", "d", " ", "i", "n", " ">>

T_section_layout ==
    <<" ", "s", "e", "c", "t", "i", "o", "n", " ", "l", "a", "y", "o", "u",
    "t">>

T_Starting ==
    <<"S", "t", "a", "r", "t", "i", "n", "g">>

T_Virtual ==
    <<"V", "i", "r", "t", "u", "a", "l">>

T_address ==
    <<"a", "d", "d", "r", "e", "s", "s">>

T_Size ==
    <<"S", "i", "z", "e">>

T_File ==
    <<"F", "i", "l", "e">>

T_Offset ==
    <<"O", "f", "f", "s", "e", "t">>

T_memory_map ==
    <<"M", "e", "m", "o", "r", "y", " ", "m", "a", "p", ":">>

T_linker_generated ==
    <<"L", "i", "n", "k", "e", "r", " ", "g", "e", "n", "e", "r", "a", "t",
    "e", "d", " ", "s", "y", "m", "b", "o", "l", "s", ":">>

T_entry_of ==
    <<"(", "e", "n", "t", "r", "y", " ", "o", "f", " ">>

T_asm ==
    <<" ", "(", "a", "s", "m", ")">>

T_dotL ==
    <<".", "L">>

T_dotdot ==
    <<".", ".">>

T_stringBase ==
    <<"@", "s", "t", "r", "i", "n", "g", "B", "a", "s", "e">>

T_extabindex ==
    <<"e", "x", "t", "a", "b", "i", "n", "d", "e", "x">>

T_exidx ==
    <<"e", "x", "i", "d", "x">>

T_extab ==
    <<"e", "x", "t", "a", "b">>

T_line ==
    <<"l", "i", "n", "e">>

T_debug ==
    <<"d", "e", "b", "u", "g">>

T_space_tab ==
    <<" ", "\t">>

T_tab ==
    <<"\t">>

---------------------------------------------------------------------------
(* nom primitives.                                                         *)

Fail == [ok |-> FALSE]

Ok(v, r) == [ok |-> TRUE, val |-> v, rest |-> r]

Take(s, n) == SubSeq(s, 1, n)

Drop(s, n) == SubSeq(s, n + 1, Len(s))

IsPrefix(t, s) == Len(t) <= Len(s) /\ SubSeq(s, 1, Len(t)) = t

IsSuffix(t, s) == Len(t) <= Len(s) /\ SubSeq(s, Len(s) - Len(t) + 1, Len(s)) = t

\* Option<T>: None is <<>>, Some(v) is <<v>>
None == <<>>

Some(v) == <<v>>

\* the number of characters from position i on that lie in CS, as an end index
RECURSIVE SpanFrom(_, _, _)
SpanFrom(s, i, CS) ==
    IF i <= Len(s) /\ s[i] \in CS THEN SpanFrom(s, i + 1, CS) ELSE i - 1

\* the same for the characters outside CS
RECURSIVE SpanFromNot(_, _, _)
SpanFromNot(s, i, CS) ==
    IF i <= Len(s) /\ s[i] \notin CS THEN SpanFromNot(s, i + 1, CS) ELSE i - 1

tag(t, s) == IF IsPrefix(t, s) THEN Ok(t, Drop(s, Len(t))) ELSE Fail

char(c, s) == IF s # <<>> /\ s[1] = c THEN Ok(c, Drop(s, 1)) ELSE Fail

\* count(char(c), n)
count_char(c, n, s) ==
    IF Len(s) >= n /\ \A i \in 1..n : s[i] = c THEN Ok(n, Drop(s, n)) ELSE Fail

\* a variant of eof that succeeds on any input, as tag("") does
eof_any(s) == Ok(<<>>, s)

eof(s) == IF s = <<>> THEN Ok(<<>>, s) ELSE Fail

take(n, s) == IF Len(s) >= n THEN Ok(Take(s, n), Drop(s, n)) ELSE Fail

take_while(CS, s) ==
    LET n == SpanFrom(s, 1, CS) IN Ok(Take(s, n), Drop(s, n))

take_while1(CS, s) ==
    LET n == SpanFrom(s, 1, CS)
    IN  IF n = 0 THEN Fail ELSE Ok(Take(s, n), Drop(s, n))

take_while_m_n(m, n, CS, s) ==
    LET k == SpanFrom(s, 1, CS)
        len == IF k > n THEN n ELSE k
    IN  IF k < m THEN Fail ELSE Ok(Take(s, len), Drop(s, len))

\* a variant of all_consuming without its test of the remaining input
accept_prefix(r) == r

all_consuming(r) == IF r.ok /\ r.rest = <<>> THEN r ELSE Fail

\* opt(p): an error of p becomes None with nothing consumed
opt(r, s) == IF r.ok THEN Ok(Some(r.val), r.rest) ELSE Ok(None, s)

\* map(p, f)
map(r, F(_)) == IF r.ok THEN Ok(F(r.val), r.rest) ELSE Fail

\* map(p, |_| v)
map_to(r, v) == IF r.ok THEN Ok(v, r.rest) ELSE Fail

\* tuple, pair, preceded, terminated, delimited: K parses what r left
then(r, K(_)) == IF r.ok THEN K(r) ELSE Fail

\* alt((p, q)): q is tried on the same input when p fails
or_else(r, q) == IF r.ok THEN r ELSE q

\* p.and_then(q): q runs over the output of p, what q leaves is dropped
and_then(r, q) == IF r.ok /\ q.ok THEN Ok(q.val, r.rest) ELSE Fail

alpha1(s) == take_while1(Alpha, s)

alphanumeric1(s) == take_while1(Alnum, s)

digit1(s) == take_while1(Digit, s)

---------------------------------------------------------------------------
(* Integer conversions.                                                    *)

Half == 65536

\* acc * radix + d in 32 bits; <<>> on overflow
StepU32(acc, radix, d) ==
    LET lo == acc[2] * radix + d
        hi == acc[1] * radix + (lo \div Half)
    IN  IF hi >= Half THEN <<>> ELSE <<hi, lo % Half>>

RECURSIVE FoldU32(_, _, _, _)
FoldU32(s, i, radix, acc) ==
    IF i > Len(s) THEN Some(acc)
    ELSE LET nxt == StepU32(acc, radix, DigitValue(s[i]))
         IN  IF nxt = <<>> THEN None ELSE FoldU32(s, i + 1, radix, nxt)

\* u32::from_str_radix and str::parse::<u32> on a run of digits
parse_u32(s, radix) == IF s = <<>> THEN None ELSE FoldU32(s, 1, radix, <<0, 0>>)

RECURSIVE FoldU8(_, _, _)
FoldU8(s, i, acc) ==
    IF i > Len(s) THEN Some(acc)
    ELSE LET nxt == acc * 10 + DigitValue(s[i])
         IN  IF nxt > 255 THEN None ELSE FoldU8(s, i + 1, nxt)

\* a variant of parse_u8 that converts to 32 bits
parse_u8_wide(s) == parse_u32(s, 10)

\* u8::from_str_radix(s, 10) and str::parse::<u8> on a run of digits
parse_u8(s) ==
    IF s = <<>> THEN None
    ELSE LET v == FoldU8(s, 1, 0) IN IF v = None THEN None ELSE Some(<<0, v[1]>>)

\* map_res(p, conv): a failed conversion is a parse error
map_res(r, v) == IF r.ok /\ v # None THEN Ok(v[1], r.rest) ELSE Fail

---------------------------------------------------------------------------
(* map.rs: shared primitives.                                              *)

\* a variant of padded that takes len characters after the padding
padded_after_pad(len, s) ==
    LET pad == SpanFrom(s, 1, {" "})
    IN  IF pad > len THEN Fail ELSE take(len, Drop(s, pad))

padded(len, s) ==
    LET pad == SpanFrom(s, 1, {" "})
    IN  IF pad > len THEN Fail ELSE take(len - pad, Drop(s, pad))

\* the error padded returns: a nom::Err::Error, with the kind LengthValue
\* and the message when the padding is longer than len, with the kind Eof
\* of take when fewer than len characters are there; None on success
padded_error(len, s) ==
    LET pad == SpanFrom(s, 1, {" "})
    IN  IF pad > len
        THEN Some([err |-> "Error", kind |-> "LengthValue",
                   message |-> "Padding length is too large"])
        ELSE IF Len(Drop(s, pad)) < len - pad
        THEN Some([err |-> "Error", kind |-> "Eof"])
        ELSE None

\* a variant of hex that accepts fewer digits than count
hex_up_to(count, s) ==
    then(take_while_m_n(1, count, HexDigit, s), LAMBDA r :
        map_res(r, parse_u32(r.val, 16)))

hex(count, s) ==
    then(take_while_m_n(count, count, HexDigit, s), LAMBDA r :
        map_res(r, parse_u32(r.val, 16)))

c_name(s) ==
    LET n1 == IF s # <<>> /\ s[1] = "_" THEN 1 ELSE SpanFrom(s, 1, Alpha)
    IN  IF n1 = 0 THEN Fail
        ELSE take(SpanFrom(s, n1 + 1, Alnum \cup {"_"}), s)

CppFirst(s) ==
    IF s # <<>> /\ s[1] \in Alpha THEN SpanFrom(s, 1, Alpha)
    ELSE SpanFrom(s, 1, {"_", "@"})

CppChar == Alnum \cup {"_", "@", "$", "<", ">", ",", "-"}

cpp_name(s) ==
    LET n1 == CppFirst(s)
    IN  IF n1 = 0 THEN Fail ELSE take(SpanFrom(s, n1 + 1, CppChar), s)

relative(s) ==
    then(char("@", s), LAMBDA a :
    then(digit1(a.rest), LAMBDA d :
        map_res(d, parse_u32(d.val, 10))))

instance(s) ==
    then(char("$", s), LAMBDA a :
    then(digit1(a.rest), LAMBDA d :
        map_res(d, parse_u32(d.val, 10))))

---------------------------------------------------------------------------
(* map.rs: section names.                                                  *)

SN(t) == [tag |-> t]

Unknown(n) == [tag |-> "Unknown", name |-> n]

\* what opt(char(c)) leaves of s
OptChar(c, s) == IF s # <<>> /\ s[1] = c THEN Drop(s, 1) ELSE s

extab(s) ==
    then(tag(T_extab, OptChar("_", OptChar(".", s))), LAMBDA t :
        Ok(SN("ExTab"), OptChar("_", t.rest)))

extabindex(s) ==
    then(or_else(tag(T_extabindex, OptChar("_", OptChar(".", s))),
                 tag(T_exidx, OptChar("_", OptChar(".", s)))), LAMBDA t :
        Ok(SN("ExTabIndex"), OptChar("_", t.rest)))

\* alt over map(tag(t), |_| v) for the pairs <<t, v>> of list, in order
RECURSIVE AltTags(_, _, _)
AltTags(list, i, s) ==
    IF i > Len(list) THEN Fail
    ELSE or_else(map_to(tag(list[i][1], s), list[i][2]),
                 AltTags(list, i + 1, s))

FixedNames ==
    << << <<"b", "s", "s">>, SN("Bss")>>,
       << <<"c", "t", "o", "r", "s">>, SN("Ctors")>>,
       << <<"d", "a", "t", "a">>, SN("Data")>>,
       << <<"d", "t", "o", "r", "s">>, SN("Dtors")>>,
       << <<"i", "n", "i", "t">>, SN("Init")>>,
       << <<"r", "o", "d", "a", "t", "a">>, SN("RoData")>>,
       << <<"s", "b", "s", "s", "2">>, SN("SBss2")>>,
       << <<"s", "b", "s", "s">>, SN("SBss")>>,
       << <<"s", "d", "a", "t", "a", "2">>, SN("SData2")>>,
       << <<"s", "d", "a", "t", "a">>, SN("SData")>>,
       << <<"t", "e", "x", "t">>, SN("Text")>> >>

fixed_name(s) ==
    then(char(".", s), LAMBDA d : AltTags(FixedNames, 1, d.rest))

UnknownChar == Alnum \cup {"_", "."}

unknown_name(s) ==
    then(char(".", s), LAMBDA d :
        map(take_while1(UnknownChar, d.rest), LAMBDA n : Unknown(n)))

\* a variant of section_name that tries extab before extabindex
section_name_extab_first(s) ==
    or_else(extab(s),
    or_else(extabindex(s),
    or_else(fixed_name(s),
            unknown_name(s))))

section_name(s) ==
    or_else(extabindex(s),
    or_else(extab(s),
    or_else(fixed_name(s),
            unknown_name(s))))

section_symbol(s) ==
    then(tag(T_dotdot, s), LAMBDA a :
    then(section_name(a.rest), LAMBDA n :
    then(char(".", n.rest), LAMBDA d :
    then(digit1(d.rest), LAMBDA g :
    then(map_res(g, parse_u8(g.val)), LAMBDA i :
        Ok(<<n.val, i.val>>, i.rest))))))

---------------------------------------------------------------------------
(* map.rs: identifiers.                                                    *)

string_base(s) ==
    then(tag(T_stringBase, s), LAMBDA a :
    then(digit1(a.rest), LAMBDA g :
        map(map_res(g, parse_u8(g.val)), LAMBDA i :
            [tag |-> "StringBase", idx |-> i])))

IdentChar == Alnum \cup {"<", ">", ",", "_", "$", "@", ".", "-"}

\* the seven alternatives of identifier, each over the whole slice
identifier_alt(k, s) ==
    CASE k = 1 ->
            all_consuming(
                then(tag(T_dotL, s), LAMBDA a :
                    map(c_name(a.rest), LAMBDA n : [tag |-> "DotL", name |-> n])))
      [] k = 2 ->
            all_consuming(
                map(relative(s), LAMBDA i : [tag |-> "Relative", idx |-> i]))
      [] k = 3 ->
            all_consuming(
                map(section_symbol(s), LAMBDA p :
                    [tag |-> "Section", name |-> p[1], idx |-> Some(p[2])]))
      [] k = 4 ->
            all_consuming(
                map(section_name(s), LAMBDA n :
                    [tag |-> "Section", name |-> n, idx |-> None]))
      [] k = 5 ->
            all_consuming(
                then(c_name(s), LAMBDA n :
                    map(opt(instance(n.rest), n.rest), LAMBDA i :
                        [tag |-> "Named", name |-> n.val, instance |-> i])))
      [] k = 6 ->
            all_consuming(
                map(cpp_name(s), LAMBDA n : [tag |-> "Mangled", name |-> n]))
      [] k = 7 ->
            all_consuming(string_base(s))

\* a variant of identifier_from that tries the mangled form before the named
RECURSIVE identifier_mangled_first(_, _)
identifier_mangled_first(k, s) ==
    IF k > 7 THEN Fail
    ELSE or_else(identifier_alt(<<1, 2, 3, 4, 6, 5, 7>>[k], s),
                 identifier_mangled_first(k + 1, s))

\* alt: the first alternative from k on that succeeds
RECURSIVE identifier_from(_, _)
identifier_from(k, s) ==
    IF k > 7 THEN Fail
    ELSE or_else(identifier_alt(k, s), identifier_from(k + 1, s))

identifier(s) ==
    then(take_while1(IdentChar, s), LAMBDA w :
        and_then(w, identifier_from(1, w.val)))

---------------------------------------------------------------------------
(* windows.rs and map.rs: filenames and origins.                           *)

NotFilename == Control \cup {"<", ">", ":", "\"", "/", "\\", "|", "?", "*"}

is_filename(c) == c \notin NotFilename

\* the end of the stem: the characters of a filename before its first '.'
Stem(s) == SpanFromNot(s, 1, NotFilename \cup {"."})

\* the end of the extension that starts after the '.' at position dot
Extension(s, dot) == SpanFromNot(s, dot + 1, NotFilename \cup AsciiWhitespace)

filename(s) ==
    IF /\ Stem(s) >= 1
       /\ Stem(s) < Len(s)
       /\ s[Stem(s) + 1] = "."
       /\ Extension(s, Stem(s) + 1) > Stem(s) + 1
    THEN take(Extension(s, Stem(s) + 1), s)
    ELSE Fail

\* a variant of origin that does not know the (asm) mark
origin_without_asm(s) ==
    then(filename(s), LAMBDA obj :
    then(char(" ", obj.rest), LAMBDA sp :
        or_else(
            map(filename(sp.rest), LAMBDA src :
                [obj |-> obj.val, src |-> Some(src), asm |-> FALSE]),
            Ok([obj |-> obj.val, src |-> None, asm |-> FALSE], sp.rest))))

\* a variant of origin that takes the (asm) mark after the object file too
origin_asm_without_src(s) ==
    then(filename(s), LAMBDA obj :
    then(char(" ", obj.rest), LAMBDA sp :
        or_else(
            then(filename(sp.rest), LAMBDA src :
                map(opt(tag(T_asm, src.rest), src.rest), LAMBDA a :
                    [obj |-> obj.val, src |-> Some(src.val), asm |-> a # None])),
        or_else(
            map_to(tag(Drop(T_asm, 1), sp.rest),
                   [obj |-> obj.val, src |-> None, asm |-> TRUE]),
            Ok([obj |-> obj.val, src |-> None, asm |-> FALSE], sp.rest)))))

origin(s) ==
    then(filename(s), LAMBDA obj :
    then(char(" ", obj.rest), LAMBDA sp :
        or_else(
            then(filename(sp.rest), LAMBDA src :
                map(opt(tag(T_asm, src.rest), src.rest), LAMBDA a :
                    [obj |-> obj.val, src |-> Some(src.val), asm |-> a # None])),
            Ok([obj |-> obj.val, src |-> None, asm |-> FALSE], sp.rest))))

---------------------------------------------------------------------------
(* tree.rs: the symbol reference tree.                                     *)

tree_title(s) ==
    then(tag(T_link_map_of, s), LAMBDA a : c_name(a.rest))

TypeNames ==
    << << <<"s", "e", "c", "t", "i", "o", "n">>, "Section">>,
       << <<"o", "b", "j", "e", "c", "t">>, "Object">>,
       << <<"f", "u", "n", "c">>, "Function">>,
       << <<"n", "o", "t", "y", "p", "e">>, "None">> >>

type(s) == AltTags(TypeNames, 1, s)

ScopeNames ==
    << << <<"g", "l", "o", "b", "a", "l">>, "Global">>,
       << <<"l", "o", "c", "a", "l">>, "Local">>,
       << <<"w", "e", "a", "k">>, "Weak">> >>

scope(s) == AltTags(ScopeNames, 1, s)

specifier(s) ==
    then(char("(", s), LAMBDA a :
    then(type(a.rest), LAMBDA t :
    then(char(",", t.rest), LAMBDA b :
    then(scope(b.rest), LAMBDA c :
    then(char(")", c.rest), LAMBDA d :
    then(char(" ", d.rest), LAMBDA e :
    then(tag(T_found_in, e.rest), LAMBDA f :
        map(origin(f.rest), LAMBDA o :
            [type |-> t.val, scope |-> c.val, origin |-> o]))))))))

linker_data(s) ==
    then(c_name(s), LAMBDA n :
        map_to(tag(T_found_as_linker, n.rest), [tag |-> "Linker", name |-> n.val]))

object_data(s) ==
    then(identifier(s), LAMBDA i :
    then(char(" ", i.rest), LAMBDA a :
        map(specifier(a.rest), LAMBDA p :
            [tag |-> "Object", id |-> i.val, spec |-> p])))

\* a variant of duplicate that knows the UNREFERENCED DUPLICATE form only
duplicate_identifier_only(s) ==
    then(tag(T_dup, s), LAMBDA a :
        then(tag(T_unreferenced, a.rest), LAMBDA u :
            map(identifier(u.rest), LAMBDA i :
                [tag |-> "DuplicateIdentifier", id |-> i])))

duplicate(s) ==
    then(tag(T_dup, s), LAMBDA a :
        or_else(
            then(tag(T_unreferenced, a.rest), LAMBDA u :
                map(identifier(u.rest), LAMBDA i :
                    [tag |-> "DuplicateIdentifier", id |-> i])),
            map(specifier(a.rest), LAMBDA p :
                [tag |-> "DuplicateSpecifier", spec |-> p])))

\* the depth read off the width of the indentation
depth_of_indent(s) ==
    then(take_while({" "}, s), LAMBDA sp :
    then(digit1(sp.rest), LAMBDA d :
    then(tag(<<"]", " ">>, d.rest), LAMBDA t :
        Ok(<<0, Len(sp.val)>>, t.rest))))

depth(s) ==
    then(take_while({" "}, s), LAMBDA sp :
    then(digit1(sp.rest), LAMBDA d :
    then(tag(<<"]", " ">>, d.rest), LAMBDA t :
        map_res(t, parse_u32(d.val, 10)))))

node(s) ==
    then(depth(s), LAMBDA d :
        map(or_else(linker_data(d.rest),
            or_else(object_data(d.rest),
                    duplicate(d.rest))), LAMBDA x :
            [depth |-> d.val, data |-> x]))

---------------------------------------------------------------------------
(* section_table.rs: the per-section symbol tables.                        *)

section_table_title(s) ==
    then(section_name(s), LAMBDA n :
        map_to(tag(T_section_layout, n.rest), n.val))

section_table_columns0(s) ==
    then(count_char(" ", 2, s), LAMBDA a :
    then(tag(T_Starting, a.rest), LAMBDA b :
    then(count_char(" ", 8, b.rest), LAMBDA c :
        tag(T_Virtual, c.rest))))

section_table_columns1(s) ==
    then(count_char(" ", 2, s), LAMBDA a :
    then(tag(T_address, a.rest), LAMBDA b :
    then(count_char(" ", 2, b.rest), LAMBDA c :
    then(tag(T_Size, c.rest), LAMBDA d :
    then(count_char(" ", 3, d.rest), LAMBDA e :
        tag(T_address, e.rest))))))

separator(s) ==
    then(count_char(" ", 2, s), LAMBDA a : count_char("-", 23, a.rest))

\* terminated(hex(count), char(' '))
hex_sp(count, s) ==
    then(hex(count, s), LAMBDA h : map_to(char(" ", h.rest), h.val))

align(s) ==
    then(padded(2, s), LAMBDA p :
    then(digit1(p.val), LAMBDA d :
        map_res(p, parse_u8(d.val))))

parent_identifier(s) ==
    then(tag(T_entry_of, s), LAMBDA a :
    then(identifier(a.rest), LAMBDA i :
        map_to(char(")", i.rest), i.val)))

child(s) ==
    then(count_char("0", 6, s), LAMBDA z :
    then(char(" ", z.rest), LAMBDA a :
    then(hex_sp(8, a.rest), LAMBDA v :
    then(opt(hex_sp(8, v.rest), v.rest), LAMBDA f :
    then(identifier(f.rest), LAMBDA i :
    then(char(" ", i.rest), LAMBDA b :
        map(parent_identifier(b.rest), LAMBDA p :
            [virt_addr |-> v.val, file_addr |-> f.val,
             data |-> [tag |-> "Child", parent |-> p], id |-> i.val])))))))

unused(s) == child(s)

parent(s) ==
    then(hex_sp(6, s), LAMBDA z :
    then(hex_sp(8, z.rest), LAMBDA v :
    then(opt(hex_sp(8, v.rest), v.rest), LAMBDA f :
    then(align(f.rest), LAMBDA g :
    then(char(" ", g.rest), LAMBDA b :
        map(identifier(b.rest), LAMBDA i :
            [virt_addr |-> v.val, file_addr |-> f.val,
             data |-> [tag |-> "Parent", size |-> z.val, align |-> g.val],
             id |-> i]))))))

\* a variant of symbol that accepts the marker UNUSED for the address and
\* has unused among its alternatives
symbol_with_unused(s) ==
    then(count_char(" ", 2, s), LAMBDA a :
    then(or_else(hex_sp(8, a.rest),
                 map_to(tag(<<"U", "N", "U", "S", "E", "D", " ", " ", " ">>,
                            a.rest), <<0, 0>>)), LAMBDA h :
    then(or_else(parent(h.rest), or_else(child(h.rest), unused(h.rest))),
         LAMBDA r :
    then(or_else(tag(T_space_tab, r.rest), tag(T_tab, r.rest)), LAMBDA t :
        map(origin(t.rest), LAMBDA o :
            [addr |-> h.val, virt_addr |-> r.val.virt_addr,
             file_addr |-> r.val.file_addr, data |-> r.val.data,
             id |-> r.val.id, origin |-> o])))))

symbol(s) ==
    then(count_char(" ", 2, s), LAMBDA a :
    then(hex_sp(8, a.rest), LAMBDA h :
    then(or_else(parent(h.rest), child(h.rest)), LAMBDA r :
    then(or_else(tag(T_space_tab, r.rest), tag(T_tab, r.rest)), LAMBDA t :
        map(origin(t.rest), LAMBDA o :
            [addr |-> h.val, virt_addr |-> r.val.virt_addr,
             file_addr |-> r.val.file_addr, data |-> r.val.data,
             id |-> r.val.id, origin |-> o])))))

---------------------------------------------------------------------------
(* memory_table.rs: the memory map.                                        *)

memory_table_title(s) == tag(T_memory_map, s)

memory_table_columns0(s) ==
    then(count_char(" ", 19, s), LAMBDA a :
    then(tag(T_Starting, a.rest), LAMBDA b :
    then(char(" ", b.rest), LAMBDA c :
    then(tag(T_Size, c.rest), LAMBDA d :
    then(count_char(" ", 5, d.rest), LAMBDA e :
        tag(T_File, e.rest))))))

memory_table_columns1(s) ==
    then(count_char(" ", 19, s), LAMBDA a :
    then(tag(T_address, a.rest), LAMBDA b :
    then(count_char(" ", 11, b.rest), LAMBDA c :
        tag(T_Offset, c.rest))))

memory_table_entry(s) ==
    then(padded(17, s), LAMBDA p :
    then(and_then(p, section_name(p.val)), LAMBDA n :
    then(count_char(" ", 2, n.rest), LAMBDA g :
    then(hex_sp(8, g.rest), LAMBDA v :
    then(hex_sp(8, v.rest), LAMBDA z :
        map(hex(8, z.rest), LAMBDA f :
            [data |-> [tag |-> "Main", name |-> n.val, virt_addr |-> v.val],
             size |-> z.val, file_addr |-> f]))))))

DebugSuffixes ==
    << << <<"a", "b", "b", "r", "e", "v">>, "Abbrev">>,
       << <<"a", "r", "a", "n", "g", "e", "s">>, "Aranges">>,
       << <<"i", "n", "f", "o">>, "Info">>,
       << <<"l", "i", "n", "e">>, "Info">>,
       << <<"s", "f", "n", "a", "m", "e", "s">>, "SfNames">>,
       << <<"s", "r", "c", "i", "n", "f", "o">>, "SrcInfo">>,
       << <<"s", "t", "r">>, "Str">> >>

debug_section_name(s) ==
    then(char(".", s), LAMBDA dot :
        or_else(
            map_to(tag(T_line, dot.rest), "Line"),
            then(tag(T_debug, dot.rest), LAMBDA d :
                or_else(
                    map_to(eof(d.rest), "Main"),
                    then(char("_", d.rest), LAMBDA u :
                        AltTags(DebugSuffixes, 1, u.rest))))))

\* a debug row read in the layout of the main rows
debug_entry_main_layout(s) ==
    then(padded(17, s), LAMBDA p :
    then(and_then(p, debug_section_name(p.val)), LAMBDA n :
    then(count_char(" ", 2, n.rest), LAMBDA g :
    then(hex_sp(8, g.rest), LAMBDA v :
    then(hex_sp(8, v.rest), LAMBDA z :
        map(hex(8, z.rest), LAMBDA f :
            [data |-> [tag |-> "Debug", name |-> n.val],
             size |-> z.val, file_addr |-> f]))))))

debug_entry(s) ==
    then(padded(17, s), LAMBDA p :
    then(and_then(p, debug_section_name(p.val)), LAMBDA n :
    then(count_char(" ", 11, n.rest), LAMBDA g :
    then(hex_sp(6, g.rest), LAMBDA z :
        map(hex(8, z.rest), LAMBDA f :
            [data |-> [tag |-> "Debug", name |-> n.val],
             size |-> z.val, file_addr |-> f])))))

---------------------------------------------------------------------------
(* linker_table.rs: the linker generated symbols.                          *)

linker_table_title(s) == tag(T_linker_generated, s)

linker_table_entry(s) ==
    then(padded(25, s), LAMBDA p :
    then(and_then(p, c_name(p.val)), LAMBDA n :
    then(char(" ", n.rest), LAMBDA a :
        map(hex(8, a.rest), LAMBDA h : [name |-> n.val, virt_addr |-> h]))))

---------------------------------------------------------------------------
(* map.rs: the line dispatcher.                                            *)

\* a variant of trim_end_matches that strips nothing
trim_nothing(s, pat) == s

RECURSIVE trim_end_matches(_, _)
trim_end_matches(s, pat) ==
    IF pat # <<>> /\ IsSuffix(pat, s)
    THEN trim_end_matches(Take(s, Len(s) - Len(pat)), pat)
    ELSE s

Empty == [tag |-> "Empty"]

\* the k-th recognizer of line with its map, before all_consuming
recognizer(k, s) ==
    CASE k = 1 -> map_to(eof(s), Empty)
      [] k = 2 -> map(tree_title(s), LAMBDA v : [tag |-> "TreeTitle", title |-> v])
      [] k = 3 -> map(node(s), LAMBDA v : [tag |-> "TreeNode", node |-> v])
      [] k = 4 -> map(section_table_title(s), LAMBDA v :
                      [tag |-> "SectionTitle", section |-> v])
      [] k = 5 -> map_to(section_table_columns0(s), [tag |-> "SectionColumns0"])
      [] k = 6 -> map_to(section_table_columns1(s), [tag |-> "SectionColumns1"])
      [] k = 7 -> map_to(separator(s), [tag |-> "SectionSeparator"])
      [] k = 8 -> map(symbol(s), LAMBDA v : [tag |-> "SectionSymbol", symbol |-> v])
      [] k = 9 -> map_to(memory_table_title(s), [tag |-> "MemoryTitle"])
      [] k = 10 -> map_to(memory_table_columns0(s), [tag |-> "MemoryColumns0"])
      [] k = 11 -> map_to(memory_table_columns1(s), [tag |-> "MemoryColumns1"])
      [] k = 12 -> map(memory_table_entry(s), LAMBDA v :
                       [tag |-> "MemoryEntry", entry |-> v])
      [] k = 13 -> map(debug_entry(s), LAMBDA v :
                       [tag |-> "MemoryEntry", entry |-> v])
      [] k = 14 -> map_to(linker_table_title(s), [tag |-> "LinkerTitle"])
      [] k = 15 -> map(linker_table_entry(s), LAMBDA v :
                       [tag |-> "LinkerEntry", linker |-> v])

\* the k-th alternative of line: every recognizer but eof under all_consuming
line_alt(k, s) ==
    IF k = 1 THEN recognizer(1, s) ELSE all_consuming(recognizer(k, s))

\* alt: the first alternative from k on that succeeds
RECURSIVE line_from(_, _)
line_from(k, s) ==
    IF k > 15 THEN Fail
    ELSE or_else(line_alt(k, s), line_from(k + 1, s))

line(x) == line_from(1, trim_end_matches(x, T_crlf))

---------------------------------------------------------------------------
(* Sample lines, from the tests of the source, and near misses of them.    *)

L_tree_title ==
    <<"L", "i", "n", "k", " ", "m", "a", "p", " ", "o", "f", " ", "_", "_",
    "s", "t", "a", "r", "t">>

L_tree_obj_src ==
    <<" ", " ", "1", "]", " ", "_", "_", "s", "t", "a", "r", "t", " ", "(",
    "f", "u", "n", "c", ",", "w", "e", "a", "k", ")", " ", "f", "o", "u",
    "n", "d", " ", "i", "n", " ", "o", "s", ".", "a", " ", "_", "_", "s",
    "t", "a", "r", "t", ".", "c">>

L_tree_obj ==
    <<" ", " ", "1", "]", " ", "_", "_", "s", "t", "a", "r", "t", " ", "(",
    "f", "u", "n", "c", ",", "g", "l", "o", "b", "a", "l", ")", " ", "f",
    "o", "u", "n", "d", " ", "i", "n", " ", "_", "_", "s", "t", "a", "r",
    "t", ".", "c", ".", "o", " ">>

L_tree_linker ==
    <<" ", " ", " ", "3", "]", " ", "_", "s", "t", "a", "c", "k", "_", "a",
    "d", "d", "r", " ", "f", "o", "u", "n", "d", " ", "a", "s", " ", "l",
    "i", "n", "k", "e", "r", " ", "g", "e", "n", "e", "r", "a", "t", "e",
    "d", " ", "s", "y", "m", "b", "o", "l">>

L_tree_section ==
    <<" ", " ", " ", " ", "4", "]", " ", ".", ".", ".", "d", "a", "t", "a",
    ".", "0", " ", "(", "n", "o", "t", "y", "p", "e", ",", "l", "o", "c",
    "a", "l", ")", " ", "f", "o", "u", "n", "d", " ", "i", "n", " ", "O",
    "S", "C", "a", "c", "h", "e", ".", "c", ".", "o", " ">>

L_tree_instance ==
    <<" ", " ", "1", "9", "]", " ", "f", "i", "n", "f", "o", "$", "2", "2",
    "1", " ", "(", "n", "o", "t", "y", "p", "e", ",", "g", "l", "o", "b",
    "a", "l", ")", " ", "f", "o", "u", "n", "d", " ", "i", "n", " ", "b",
    "s", "s", ".", "o", " ">>

L_tree_asm ==
    <<" ", " ", " ", " ", " ", " ", "6", "]", " ", "v", "p", "r", "i", "n",
    "t", "f", " ", "(", "n", "o", "t", "y", "p", "e", ",", "g", "l", "o",
    "b", "a", "l", ")", " ", "f", "o", "u", "n", "d", " ", "i", "n", " ",
    "M", "S", "L", "_", "C", ".", "P", "P", "C", "E", "A", "B", "I", ".",
    "b", "a", "r", "e", ".", "H", ".", "a", " ", "p", "r", "i", "n", "t",
    "f", ".", "o", " ", "(", "a", "s", "m", ")">>

L_tree_dup_id ==
    <<" ", " ", " ", " ", " ", " ", " ", " ", " ", " ", " ", " ", " ", " ",
    " ", " ", "1", "6", "]", " ", ">", ">", ">", " ", "U", "N", "R", "E",
    "F", "E", "R", "E", "N", "C", "E", "D", " ", "D", "U", "P", "L", "I",
    "C", "A", "T", "E", " ", "_", "_", "d", "t", "_", "_", "1", "5", "C",
    "M", "e", "m", "o", "r", "y", "I", "n", "S", "t", "r", "e", "a", "m",
    "F", "v">>

L_tree_dup_spec ==
    <<" ", " ", " ", " ", " ", " ", " ", " ", " ", " ", " ", " ", " ", " ",
    " ", " ", "1", "6", "]", " ", ">", ">", ">", " ", "(", "f", "u", "n",
    "c", ",", "w", "e", "a", "k", ")", " ", "f", "o", "u", "n", "d", " ",
    "i", "n", " ", "K", "y", "o", "t", "o", "_", "C", "W", "1", ".", "a",
    " ", "C", "M", "e", "m", "o", "r", "y", "I", "n", "S", "t", "r", "e",
    "a", "m", ".", "c", "p", "p">>

L_sec_title ==
    <<".", "i", "n", "i", "t", " ", "s", "e", "c", "t", "i", "o", "n", " ",
    "l", "a", "y", "o", "u", "t">>

L_sec_columns0 ==
    <<" ", " ", "S", "t", "a", "r", "t", "i", "n", "g", " ", " ", " ", " ",
    " ", " ", " ", " ", "V", "i", "r", "t", "u", "a", "l">>

L_sec_columns1 ==
    <<" ", " ", "a", "d", "d", "r", "e", "s", "s", " ", " ", "S", "i", "z",
    "e", " ", " ", " ", "a", "d", "d", "r", "e", "s", "s">>

L_sec_separator ==
    <<" ", " ", "-", "-", "-", "-", "-", "-", "-", "-", "-", "-", "-", "-",
    "-", "-", "-", "-", "-", "-", "-", "-", "-", "-", "-">>

L_sec_parent_section ==
    <<" ", " ", "0", "0", "0", "0", "0", "0", "0", "0", " ", "0", "0", "0",
    "1", "c", "c", " ", "8", "0", "0", "0", "3", "1", "0", "0", " ", " ",
    "1", " ", ".", "i", "n", "i", "t", " ", "\t", "_", "_", "s", "t", "a",
    "r", "t", ".", "o", " ">>

L_sec_parent ==
    <<" ", " ", "0", "0", "0", "0", "0", "0", "0", "0", " ", "0", "0", "0",
    "0", "f", "0", " ", "8", "0", "0", "0", "3", "1", "0", "0", " ", " ",
    "4", " ", "_", "_", "s", "t", "a", "r", "t", " ", "\t", "_", "_", "s",
    "t", "a", "r", "t", ".", "o", " ">>

L_sec_child ==
    <<" ", " ", "0", "0", "0", "0", "0", "2", "5", "0", " ", "0", "0", "0",
    "0", "0", "0", " ", "8", "0", "0", "0", "3", "3", "5", "0", " ", "_",
    "_", "f", "i", "l", "l", "_", "m", "e", "m", " ", "(", "e", "n", "t",
    "r", "y", " ", "o", "f", " ", "m", "e", "m", "s", "e", "t", ")", " ",
    "\t", "_", "_", "m", "e", "m", ".", "o", " ">>

L_sec_parent_file ==
    <<" ", " ", "0", "0", "0", "3", "1", "b", "9", "4", " ", "0", "0", "0",
    "0", "9", "c", " ", "8", "0", "0", "e", "c", "7", "5", "4", " ", "0",
    "0", "0", "e", "8", "9", "5", "4", " ", " ", "4", " ", "O", "n", "R",
    "e", "m", "o", "v", "a", "l", "_", "_", "2", "3", "A", "C", "o", "n",
    "t", "r", "o", "l", "l", "e", "r", "R", "e", "m", "o", "v", "e", "d",
    "S", "t", "a", "t", "e", "F", "v", "\t", "A", "C", "o", "n", "t", "r",
    "o", "l", "l", "e", "r", "R", "e", "m", "o", "v", "e", "d", "S", "t",
    "a", "t", "e", ".", "o", " ">>

L_sec_unused ==
    <<" ", " ", "U", "N", "U", "S", "E", "D", " ", " ", " ", "0", "0", "0",
    "0", "0", "4", " ", ".", ".", ".", ".", ".", ".", ".", ".", " ", ".",
    ".", ".", ".", ".", ".", ".", ".", " ", " ", " ", " ", "O", "S", "V",
    "R", "e", "p", "o", "r", "t", " ", "o", "s", ".", "a", " ", "O", "S",
    "E", "r", "r", "o", "r", ".", "o", " ">>

L_mem_title ==
    <<"M", "e", "m", "o", "r", "y", " ", "m", "a", "p", ":">>

L_mem_columns0 ==
    <<" ", " ", " ", " ", " ", " ", " ", " ", " ", " ", " ", " ", " ", " ",
    " ", " ", " ", " ", " ", "S", "t", "a", "r", "t", "i", "n", "g", " ",
    "S", "i", "z", "e", " ", " ", " ", " ", " ", "F", "i", "l", "e">>

L_mem_columns1 ==
    <<" ", " ", " ", " ", " ", " ", " ", " ", " ", " ", " ", " ", " ", " ",
    " ", " ", " ", " ", " ", "a", "d", "d", "r", "e", "s", "s", " ", " ",
    " ", " ", " ", " ", " ", " ", " ", " ", " ", "O", "f", "f", "s", "e",
    "t">>

L_mem_init ==
    <<" ", " ", " ", " ", " ", " ", " ", " ", " ", " ", " ", " ", ".", "i",
    "n", "i", "t", " ", " ", "8", "0", "0", "0", "3", "1", "0", "0", " ",
    "0", "0", "0", "0", "2", "3", "a", "8", " ", "0", "0", "0", "0", "0",
    "1", "c", "0">>

L_mem_extab ==
    <<" ", " ", " ", " ", " ", " ", " ", " ", " ", " ", " ", "_", "e", "x",
    "t", "a", "b", " ", " ", "8", "0", "0", "0", "5", "4", "c", "0", " ",
    "0", "0", "0", "0", "0", "6", "a", "8", " ", "0", "0", "0", "0", "2",
    "5", "8", "0">>

L_mem_extabindex ==
    <<" ", " ", " ", " ", " ", " ", "_", "e", "x", "t", "a", "b", "i", "n",
    "d", "e", "x", " ", " ", "8", "0", "0", "0", "5", "b", "8", "0", " ",
    "0", "0", "0", "0", "0", "a", "1", "c", " ", "0", "0", "0", "0", "2",
    "c", "4", "0">>

L_mem_debug_srcinfo ==
    <<" ", " ", " ", ".", "d", "e", "b", "u", "g", "_", "s", "r", "c", "i",
    "n", "f", "o", " ", " ", " ", " ", " ", " ", " ", " ", " ", " ", " ",
    "0", "0", "0", "0", "0", "0", " ", "0", "0", "0", "0", "0", "0", "0",
    "0">>

L_mem_debug ==
    <<" ", " ", " ", " ", " ", " ", " ", " ", " ", " ", " ", ".", "d", "e",
    "b", "u", "g", " ", " ", " ", " ", " ", " ", " ", " ", " ", " ", " ",
    "0", "0", "0", "0", "0", "0", " ", "0", "0", "0", "0", "0", "0", "0",
    "0">>

L_mem_line ==
    <<" ", " ", " ", " ", " ", " ", " ", " ", " ", " ", " ", " ", ".", "l",
    "i", "n", "e", " ", " ", " ", " ", " ", " ", " ", " ", " ", " ", " ",
    "0", "0", "0", "0", "0", "0", " ", "0", "0", "0", "0", "0", "0", "0",
    "0">>

L_link_title ==
    <<"L", "i", "n", "k", "e", "r", " ", "g", "e", "n", "e", "r", "a", "t",
    "e", "d", " ", "s", "y", "m", "b", "o", "l", "s", ":">>

L_link_entry ==
    <<" ", " ", " ", " ", " ", " ", " ", " ", " ", " ", " ", "_", "d", "b",
    "_", "s", "t", "a", "c", "k", "_", "a", "d", "d", "r", " ", "8", "0",
    "4", "f", "0", "c", "0", "0">>

L_link_ctors ==
    <<" ", " ", " ", " ", " ", " ", " ", " ", " ", " ", " ", " ", " ", " ",
    " ", " ", " ", " ", " ", "_", "c", "t", "o", "r", "s", " ", "0", "0",
    "0", "0", "0", "0", "0", "0">>

N_debug ==
    <<".", "d", "e", "b", "u", "g">>

N_line ==
    <<".", "l", "i", "n", "e">>

N_debug_abbrev ==
    <<".", "d", "e", "b", "u", "g", "_", "a", "b", "b", "r", "e", "v">>

N_debug_aranges ==
    <<".", "d", "e", "b", "u", "g", "_", "a", "r", "a", "n", "g", "e", "s">>

N_debug_info ==
    <<".", "d", "e", "b", "u", "g", "_", "i", "n", "f", "o">>

N_debug_line ==
    <<".", "d", "e", "b", "u", "g", "_", "l", "i", "n", "e">>

N_debug_sfnames ==
    <<".", "d", "e", "b", "u", "g", "_", "s", "f", "n", "a", "m", "e", "s">>

N_debug_srcinfo ==
    <<".", "d", "e", "b", "u", "g", "_", "s", "r", "c", "i", "n", "f", "o">>

N_debug_str ==
    <<".", "d", "e", "b", "u", "g", "_", "s", "t", "r">>

N_line2 ==
    <<".", "l", "i", "n", "e", "2">>

N_debugX ==
    <<".", "d", "e", "b", "u", "g", "X">>

N_debug_us ==
    <<".", "d", "e", "b", "u", "g", "_">>

N_debug_strX ==
    <<".", "d", "e", "b", "u", "g", "_", "s", "t", "r", "X">>

N_debug_lines ==
    <<".", "d", "e", "b", "u", "g", "_", "l", "i", "n", "e", "s">>

N_debug_information ==
    <<".", "d", "e", "b", "u", "g", "_", "i", "n", "f", "o", "r", "m", "a",
    "t", "i", "o", "n">>

N_debug_loc ==
    <<".", "d", "e", "b", "u", "g", "_", "l", "o", "c">>

N_lin ==
    <<".", "l", "i", "n">>

N_dotless_line ==
    <<"l", "i", "n", "e">>

N_Line ==
    <<".", "L", "i", "n", "e">>

T_debug_numbers ==
    <<"0", "0", "0", "0", "0", "0", " ", "0", "0", "0", "0", "0", "0", "0",
    "0">>

T_main_numbers ==
    <<"8", "0", "0", "0", "3", "1", "0", "0", " ", "0", "0", "0", "0", "2",
    "3", "a", "8", " ", "0", "0", "0", "0", "0", "1", "c", "0">>

L_almost_linker ==
    <<" ", " ", " ", " ", " ", " ", " ", " ", " ", " ", " ", " ", " ", " ",
    " ", " ", " ", " ", " ", " ", "e", "x", "t", "a", "b", " ", "8", "0",
    "4", "f", "0", "c", "0", "0">>

L_long_title ==
    <<".", "r", "o", "d", "a", "t", "a", "_", "a", "n", "d", "_", "s", "o",
    "m", "e", "_", "m", "o", "r", "e", "_", "t", "e", "x", "t", " ", "s",
    "e", "c", "t", "i", "o", "n", " ", "l", "a", "y", "o", "u", "t">>

L_extab_title ==
    <<"_", "e", "x", "t", "a", "b", "i", "n", "d", "e", "x", "_", " ", "s",
    "e", "c", "t", "i", "o", "n", " ", "l", "a", "y", "o", "u", "t">>

L_linkerish_symbol ==
    <<" ", " ", "a", "b", "c", "d", "e", "f", "0", "0", " ", "0", "0", "0",
    "0", "f", "0", " ", "8", "0", "0", "0", "3", "1", "0", "0", " ", " ",
    "4", " ", "a", "b", "c", " ", "\t", "a", ".", "o", " ">>

L_depth_only ==
    <<"7", "]", " ">>

L_linker_len_tree ==
    <<" ", " ", "7", "]", " ", "a", " ", "f", "o", "u", "n", "d", " ", "a",
    "s", " ", "l", "i", "n", "k", "e", "r", " ", "g", "e", "n", "e", "r",
    "a", "t", "e", "d", " ", "s", "y", "m", "b", "o", "l">>

L_tree_title_linker ==
    <<"L", "i", "n", "k", " ", "m", "a", "p", " ", "o", "f", " ", "a", "a",
    "a", "a", "a", "a", "a", "a", "a", "a", "a", "a", "a", " ", "0", "1",
    "2", "3", "a", "b", "c", "d">>

L_section_title_linker ==
    <<"e", "x", "t", "a", "b", " ", "s", "e", "c", "t", "i", "o", "n", " ",
    "l", "a", "y", "o", "u", "t", "a", "a", "a", "a", "a", " ", "0", "1",
    "2", "3", "a", "b", "c", "d">>

L_memory_title_linker ==
    <<"M", "e", "m", "o", "r", "y", " ", "m", "a", "p", ":", "a", "a", "a",
    "a", "a", "a", "a", "a", "a", "a", "a", "a", "a", "a", " ", "0", "1",
    "2", "3", "a", "b", "c", "d">>

L_linker_title_linker ==
    <<"L", "i", "n", "k", "e", "r", " ", "g", "e", "n", "e", "r", "a", "t",
    "e", "d", " ", "s", "y", "m", "b", "o", "l", "s", ":", " ", "0", "1",
    "2", "3", "a", "b", "c", "d">>

N_bss ==
    <<".", "b", "s", "s">>

N_ctors ==
    <<".", "c", "t", "o", "r", "s">>

N_data ==
    <<".", "d", "a", "t", "a">>

N_dtors ==
    <<".", "d", "t", "o", "r", "s">>

N_init ==
    <<".", "i", "n", "i", "t">>

N_rodata ==
    <<".", "r", "o", "d", "a", "t", "a">>

N_sbss2 ==
    <<".", "s", "b", "s", "s", "2">>

N_sbss ==
    <<".", "s", "b", "s", "s">>

N_sdata2 ==
    <<".", "s", "d", "a", "t", "a", "2">>

N_sdata ==
    <<".", "s", "d", "a", "t", "a">>

N_text ==
    <<".", "t", "e", "x", "t">>

N_finfo ==
    <<"f", "i", "n", "f", "o">>

N_stringBase ==
    <<"@", "s", "t", "r", "i", "n", "g", "B", "a", "s", "e">>

N_dotless_text ==
    <<"t", "e", "x", "t">>

X_3 ==
    <<".", "3">>

X_255 ==
    <<".", "2", "5", "5">>

X_256 ==
    <<".", "2", "5", "6">>

X_i221 ==
    <<"$", "2", "2", "1">>

X_imax ==
    <<"$", "4", "2", "9", "4", "9", "6", "7", "2", "9", "5">>

X_iover ==
    <<"$", "4", "2", "9", "4", "9", "6", "7", "2", "9", "6">>

X_d0 ==
    <<"0">>

X_d255 ==
    <<"2", "5", "5">>

X_d256 ==
    <<"2", "5", "6">>


---------------------------------------------------------------------------
(* The inputs.                                                             *)

\* every text over the characters A of length at most n
RECURSIVE Strings(_, _)
Strings(A, n) ==
    IF n = 0 THEN {<<>>}
    ELSE LET S == Strings(A, n - 1)
         IN  S \cup {Append(t, c) : t \in {x \in S : Len(x) = n - 1}, c \in A}

Spaces(n) == [i \in 1..n |-> " "]

\* n right-justified in a field of w columns
PadLeft(n, w) == Spaces(w - Len(n)) \o n

SampleLines ==
    {L_tree_title, L_tree_obj_src, L_tree_obj, L_tree_linker, L_tree_section,
     L_tree_instance, L_tree_asm, L_tree_dup_id, L_tree_dup_spec,
     L_sec_title, L_sec_columns0, L_sec_columns1, L_sec_separator,
     L_sec_parent_section, L_sec_parent, L_sec_child, L_sec_parent_file,
     L_sec_unused,
     L_mem_title, L_mem_columns0, L_mem_columns1, L_mem_init, L_mem_extab,
     L_mem_extabindex, L_mem_debug_srcinfo, L_mem_debug, L_mem_line,
     L_link_title, L_link_entry, L_link_ctors}

NearLines ==
    {L_almost_linker, L_long_title, L_extab_title, L_linkerish_symbol,
     L_depth_only, L_linker_len_tree, L_tree_title_linker,
     L_section_title_linker, L_memory_title_linker, L_linker_title_linker}

DebugFieldNames ==
    {N_debug, N_line, N_debug_abbrev, N_debug_aranges, N_debug_info,
     N_debug_line, N_debug_sfnames, N_debug_srcinfo, N_debug_str,
     N_line2, N_debugX, N_debug_us, N_debug_strX, N_debug_lines,
     N_debug_information, N_debug_loc, N_lin, N_dotless_line, N_Line}

FixedSpellings ==
    {N_bss, N_ctors, N_data, N_dtors, N_init, N_rodata, N_sbss2, N_sbss,
     N_sdata2, N_sdata, N_text}

\* [.][_](extabindex|exidx|extab)[_]
ExceptionSpellings ==
    {d \o u \o w \o v : d \in {<<>>, <<".">>}, u \in {<<>>, <<"_">>},
                        w \in {T_extab, T_extabindex, T_exidx},
                        v \in {<<>>, <<"_">>}}

\* rows of the memory map laid out as debug rows and as main rows
MemoryRows ==
    {PadLeft(n, 17) \o Spaces(11) \o T_debug_numbers :
        n \in DebugFieldNames \cup FixedSpellings}
    \cup {PadLeft(n, 17) \o Spaces(2) \o T_main_numbers :
        n \in DebugFieldNames \cup FixedSpellings \cup ExceptionSpellings}

Cuts(l) ==
    {Take(l, Len(l) - n) :
        n \in 1..(IF Len(l) < MaxCut THEN Len(l) ELSE MaxCut)}

Junk == {<<" ">>, <<"x">>, <<"0">>, <<"\r">>, <<"\n">>, <<"\t">>}

D_19 ==
    <<"1", "9">>

D_007 ==
    <<"0", "0", "7">>

D_65536 ==
    <<"6", "5", "5", "3", "6">>

D_max ==
    <<"4", "2", "9", "4", "9", "6", "7", "2", "9", "5">>

D_over ==
    <<"4", "2", "9", "4", "9", "6", "7", "2", "9", "6">>

D_long ==
    <<"9", "9", "9", "9", "9", "9", "9", "9", "9", "9", "9">>

D_signed ==
    <<"-", "1">>

D_spaced ==
    <<"1", " ">>

B_linker ==
    <<"_", "s", "t", "a", "c", "k", "_", "a", "d", "d", "r", " ", "f", "o",
    "u", "n", "d", " ", "a", "s", " ", "l", "i", "n", "k", "e", "r", " ",
    "g", "e", "n", "e", "r", "a", "t", "e", "d", " ", "s", "y", "m", "b",
    "o", "l">>

B_object ==
    <<"_", "_", "s", "t", "a", "r", "t", " ", "(", "f", "u", "n", "c", ",",
    "g", "l", "o", "b", "a", "l", ")", " ", "f", "o", "u", "n", "d", " ",
    "i", "n", " ", "_", "_", "s", "t", "a", "r", "t", ".", "c", ".", "o",
    " ">>

\* the depth fields of node lines: decimal numbers up to and past the
\* largest u32, and fields that are no decimal number
DepthFields ==
    {X_d0, D_19, D_007, D_65536, D_max, D_over, D_long, D_signed, D_spaced,
     <<>>}

NodeBodies == {B_linker, B_object}

\* node lines: indentation, depth field, "] " and the rest of the line
DepthLines ==
    {Spaces(n) \o d \o <<"]", " ">> \o b :
        n \in 0..MaxIndent, d \in DepthFields, b \in NodeBodies}

H_tree ==
    <<" ", " ", "1", "]", " ", "_", "_", "s", "t", "a", "r", "t", " ", "(",
    "f", "u", "n", "c", ",", "w", "e", "a", "k", ")", " ", "f", "o", "u",
    "n", "d", " ", "i", "n", " ">>

H_row ==
    <<" ", " ", "0", "0", "0", "0", "0", "0", "0", "0", " ", "0", "0", "0",
    "0", "f", "0", " ", "8", "0", "0", "0", "3", "1", "0", "0", " ", " ",
    "4", " ", "_", "_", "s", "t", "a", "r", "t", " ", "\t">>

F_os_a ==
    <<"o", "s", ".", "a">>

F_start_c_o ==
    <<"_", "_", "s", "t", "a", "r", "t", ".", "c", ".", "o">>

F_msl_a ==
    <<"M", "S", "L", "_", "C", ".", "P", "P", "C", "E", "A", "B", "I", ".",
    "b", "a", "r", "e", ".", "H", ".", "a">>

F_start_c ==
    <<"_", "_", "s", "t", "a", "r", "t", ".", "c">>

F_printf_o ==
    <<"p", "r", "i", "n", "t", "f", ".", "o">>

F_os ==
    <<"o", "s">>

\* the start of a tree object line and of a section symbol row, up to the
\* origin
OriginHeads == {H_tree, H_row}

ObjFiles == {F_os_a, F_start_c_o, F_msl_a}

SrcFiles == {F_start_c, F_printf_o}

\* origins: an object file, bare or followed by a space, then a source
\* file and (asm); the same with a name without extension, two spaces or
\* a trailing space
OriginTexts ==
    UNION {{o, o \o <<" ">>, o \o T_asm,
            o \o <<" ">> \o s, o \o <<" ">> \o s \o T_asm,
            o \o <<" ">> \o s \o <<" ">>, o \o <<" ", " ">> \o s,
            o \o <<" ">> \o F_os, o \o <<" ">> \o F_os \o T_asm} :
           o \in ObjFiles \cup {F_os}, s \in SrcFiles}

OriginLines == {h \o x : h \in OriginHeads, x \in OriginTexts}

R_addr ==
    <<"0", "0", "0", "0", "0", "2", "5", "0">>

R_virt ==
    <<"8", "0", "0", "0", "3", "3", "5", "0">>

R_file ==
    <<"0", "0", "0", "e", "8", "9", "5", "4">>

Z_0 ==
    <<"0", "0", "0", "0", "0", "0">>

Z_f0 ==
    <<"0", "0", "0", "0", "f", "0">>

Z_ABcd ==
    <<"0", "0", "A", "B", "c", "d">>

A_4 ==
    <<" ", "4">>

A_16 ==
    <<"1", "6">>

A_04 ==
    <<"0", "4">>

N_fill_mem ==
    <<"_", "_", "f", "i", "l", "l", "_", "m", "e", "m">>

N_deadbeef ==
    <<"d", "e", "a", "d", "b", "e", "e", "f">>

N_memset ==
    <<"m", "e", "m", "s", "e", "t">>

R_tail ==
    <<"\t", "_", "_", "m", "e", "m", ".", "o", " ">>

\* a section symbol row: indent, address, size z, virtual address, file
\* address f (or nothing), middle part m and tail t
SymbolRow(z, f, m, t) ==
    <<" ", " ">> \o R_addr \o <<" ">> \o z \o <<" ">> \o R_virt \o <<" ">>
        \o f \o m \o t

\* the middle of a parent row: alignment a and identifier i
ParentMiddle(a, i) == a \o <<" ">> \o i

\* the middle of a child row: identifier i, entry of p
ChildMiddle(i, p) == i \o <<" ">> \o T_entry_of \o p \o <<")">>

RowSizes == {Z_0, Z_f0, Z_ABcd}

RowFiles == {<<>>, R_file \o <<" ">>}

RowAligns == {A_4, A_16, A_04}

RowNames == {N_fill_mem, N_deadbeef}

RowTails == {R_tail, <<" ">> \o R_tail}

SymbolRows ==
    {SymbolRow(z, f, m, t) :
        z \in RowSizes, f \in RowFiles, t \in RowTails,
        m \in {ParentMiddle(a, i) : a \in RowAligns, i \in RowNames}
              \cup {ChildMiddle(i, p) : i \in RowNames,
                                       p \in {N_memset, N_deadbeef}}}

\* a section symbol row with the marker UNUSED in its address column
UnusedRow(r) ==
    <<" ", " ", "U", "N", "U", "S", "E", "D", " ", " ">> \o Drop(r, 10)

UnusedRows == {UnusedRow(r) : r \in SymbolRows}

K_db_stack_addr ==
    <<"_", "d", "b", "_", "s", "t", "a", "c", "k", "_", "a", "d", "d", "r">>

K_db_stack ==
    <<"_", "d", "b", "_", "s", "t", "a", "c", "k">>

K_dotted ==
    <<"_", "d", "b", "_", "s", "t", "a", "c", "k", ".", "a", "d", "d", "r">>

K_spaced ==
    <<"_", "d", "b", "_", "s", "t", "a", "c", "k", " ", "a", "d", "d", "r">>

K_digit ==
    <<"9", "l", "i", "v", "e", "s">>

K_left ==
    <<"_", "c", "t", "o", "r", "s", " ", " ", " ">>

K_long ==
    <<"_", "a", "_", "n", "a", "m", "e", "_", "o", "f", "_", "2", "6", "_",
    "c", "h", "a", "r", "a", "c", "t", "e", "r", "s", "_", "_">>

V_804f0c00 ==
    <<"8", "0", "4", "f", "0", "c", "0", "0">>

V_upper ==
    <<"8", "0", "4", "F", "0", "C", "0", "0">>

V_seven ==
    <<"8", "0", "4", "f", "0", "c", "0">>

V_nine ==
    <<"8", "0", "4", "f", "0", "c", "0", "0", "0">>

V_nohex ==
    <<"8", "0", "4", "f", "0", "c", "0", "g">>

\* the contents of the name field of a linker row: C identifiers, and texts
\* that only start with one, start with a digit, are set to the left or
\* are wider than the field
LinkerFields ==
    {K_db_stack_addr, K_db_stack, K_dotted, K_spaced, K_digit, K_left, K_long,
     <<>>}

LinkerAddresses == {V_804f0c00, V_upper, V_seven, V_nine, V_nohex}

LinkerRows ==
    {PadLeft(n, 25) \o <<" ">> \o v : n \in LinkerFields, v \in LinkerAddresses}

\* main rows of the memory map whose field holds a fixed name followed by
\* more characters of a section name
ExtendedNames ==
    {n \o x : n \in FixedSpellings, x \in {<<"2">>, <<"x">>, <<".", "a">>}}

ExtendedMainRows ==
    {PadLeft(n, 17) \o Spaces(2) \o T_main_numbers : n \in ExtendedNames}

LineInputs ==
    SampleLines \cup NearLines \cup MemoryRows \cup DepthLines
    \cup OriginLines \cup SymbolRows \cup UnusedRows \cup LinkerRows
    \cup ExtendedMainRows
    \cup UNION {Cuts(l) : l \in SampleLines}
    \cup {l \o x : l \in SampleLines, x \in Junk}

Terminators == {<<>>, T_crlf, T_crlf \o T_crlf}

IdentAlphabet == {"a", "_", "0", "$", "@", ".", "L"}

MidAlphabet == {"a", "2", "_", "."}

IdentPrefixes == {<<>>, T_dotdot}

IdentNames ==
    FixedSpellings \cup ExceptionSpellings
    \cup {N_finfo, N_stringBase, N_dotless_text}

IdentTails ==
    {<<>>, X_3, X_255, X_256, X_i221, X_imax, X_iover, X_d0, X_d255, X_d256}

IdentInputs ==
    Strings(IdentAlphabet, MaxIdentLen)
    \cup {p \o n \o m \o t : p \in IdentPrefixes, n \in IdentNames,
                             m \in Strings(MidAlphabet, MaxMidLen),
                             t \in IdentTails}

N_dt ==
    <<"_", "_", "d", "t", "_", "_", "1", "5", "C", "M", "e", "m", "o", "r",
    "y", "I", "n", "S", "t", "r", "e", "a", "m", "F", "v">>

N_Kyoto ==
    <<"K", "y", "o", "t", "o", "_", "C", "W", "1", ".", "a">>

N_CMemoryInStream ==
    <<"C", "M", "e", "m", "o", "r", "y", "I", "n", "S", "t", "r", "e", "a",
    "m", ".", "c", "p", "p">>

L_dup_no_id ==
    <<" ", " ", " ", " ", " ", " ", " ", " ", " ", " ", " ", " ", " ", " ",
    " ", " ", "1", "6", "]", " ", ">", ">", ">", " ", "U", "N", "R", "E",
    "F", "E", "R", "E", "N", "C", "E", "D", " ", "D", "U", "P", "L", "I",
    "C", "A", "T", "E", " ">>

\* the lines a text handed to parse_lines is made of
TextLines ==
    {<<>>, L_tree_instance, L_sec_title, L_link_entry, L_sec_unused,
     Take(L_mem_init, Len(L_mem_init) - 1)}

RECURSIVE SeqsUpTo(_, _)
SeqsUpTo(S, n) ==
    IF n = 0 THEN {<<>>}
    ELSE LET T == SeqsUpTo(S, n - 1)
         IN  T \cup {Append(t, l) : t \in {x \in T : Len(x) = n - 1}, l \in S}

Texts == SeqsUpTo(TextLines, MaxLines)

---------------------------------------------------------------------------
(* utils.rs: parse_lines.  par_lines hands every line to a worker; a       *)
(* worker maps its line with line() and the results are collected, by     *)
(* position, into Result<Vec<Line>, _>: the first error a worker saves     *)
(* makes the whole result that error, and lets the lines not yet mapped    *)
(* be dropped.                                                             *)

Pending == [state |-> "pending"]

Dropped == [state |-> "dropped"]

\* .map(|(_, output)| output) over the result of line
Mapped(r) == IF r.ok THEN [state |-> "ok", val |-> r.val] ELSE [state |-> "err"]

\* a variant of Place that stores results in their order of completion
PlaceInCompletionOrder(out, i, v) ==
    [out EXCEPT ![CHOOSE j \in 1..Len(out) :
                     /\ out[j].state = "pending"
                     /\ \A k \in 1..(j - 1) : out[k].state # "pending"] = v]

\* the result of line i goes to position i of the collection
Place(out, i, v) == [out EXCEPT ![i] = v]

\* a variant of CollectResult that keeps the lines that classified
CollectPartial(lines, out, err) ==
    [ok |-> TRUE,
     val |-> [i \in 1..Len(SelectSeq(out, LAMBDA x : x.state = "ok")) |->
                 SelectSeq(out, LAMBDA x : x.state = "ok")[i].val]]

\* collect::<Result<Vec<_>, _>>()
CollectResult(lines, out, err) ==
    IF err # None THEN [ok |-> FALSE, err |-> lines[err[1]]]
    ELSE [ok |-> TRUE, val |-> [i \in 1..Len(out) |-> out[i].val]]

NoLines ==
    /\ text = <<>>
    /\ slots = <<>>
    /\ saved = None
    /\ collected = Fail

NoInput ==
    /\ input = <<>>
    /\ terminator = <<>>
    /\ result = Fail

NoWalk ==
    /\ section = None
    /\ code_size = <<0, 0>>
    /\ data_size = <<0, 0>>
    /\ walked = 0

Init ==
    /\ text \in Texts
    /\ slots = [i \in 1..Len(text) |-> Pending]
    /\ saved = None
    /\ collected = Fail
    /\ pc = "map"
    /\ NoInput
    /\ NoWalk

MapLine(i) ==
    /\ pc = "map"
    /\ slots[i] = Pending
    /\ LET r == line(text[i])
       IN  /\ slots' = Place(slots, i, Mapped(r))
           /\ saved' = IF ~r.ok /\ saved = None THEN Some(i) ELSE saved
    /\ UNCHANGED <<input, terminator, result, pc, text, collected, walk>>

DropLine(i) ==
    /\ pc = "map"
    /\ slots[i] = Pending
    /\ saved # None
    /\ slots' = Place(slots, i, Dropped)
    /\ UNCHANGED <<input, terminator, result, pc, text, saved, collected, walk>>

Collect ==
    /\ pc = "map"
    /\ \A i \in 1..Len(text) : slots[i] # Pending
    /\ collected' = CollectResult(text, slots, saved)
    /\ pc' = "done"
    /\ UNCHANGED <<input, terminator, result, text, slots, saved, walk>>

Next ==
    \/ \E i \in 1..Len(text) : MapLine(i)
    \/ \E i \in 1..Len(text) : DropLine(i)
    \/ Collect

Spec == Init /\ [][Next]_vars

\* texts of tree lines: the two lines of a duplicate, alone, in either
\* order, repeated and beside other lines, one of them a line that fails
TreeLines == {L_tree_dup_id, L_tree_dup_spec, L_tree_obj, L_dup_no_id}

TreeTexts == SeqsUpTo(TreeLines, MaxLines)

InitTree ==
    /\ text \in TreeTexts
    /\ slots = [i \in 1..Len(text) |-> Pending]
    /\ saved = None
    /\ collected = Fail
    /\ pc = "map"
    /\ NoInput
    /\ NoWalk

SpecTree == InitTree /\ [][Next]_vars

---------------------------------------------------------------------------
(* line() applied to one line, bare or terminated.                         *)

InitLine ==
    /\ input \in LineInputs
    /\ terminator = <<>>
    /\ result = Fail
    /\ pc = "start"
    /\ NoLines
    /\ NoWalk

ClassifyLine ==
    /\ pc = "start"
    /\ \E t \in Terminators :
        /\ terminator' = t
        /\ result' = line(input \o t)
    /\ pc' = "line"
    /\ UNCHANGED <<input, text, slots, saved, collected, walk>>

NextLine == ClassifyLine

SpecLine == InitLine /\ [][NextLine]_vars

---------------------------------------------------------------------------
(* identifier and section_name applied to one token.                       *)

InitIdent ==
    /\ input \in IdentInputs
    /\ terminator = <<>>
    /\ result = Fail
    /\ pc = "start"
    /\ NoLines
    /\ NoWalk

ParseIdentifier ==
    /\ pc = "start"
    /\ result' = identifier(input)
    /\ pc' = "identifier"
    /\ UNCHANGED <<input, terminator, text, slots, saved, collected, walk>>

ParseSectionName ==
    /\ pc = "start"
    /\ result' = section_name(input)
    /\ pc' = "section_name"
    /\ UNCHANGED <<input, terminator, text, slots, saved, collected, walk>>

NextIdent == ParseIdentifier \/ ParseSectionName

SpecIdent == InitIdent /\ [][NextIdent]_vars

---------------------------------------------------------------------------
(* hex and padded applied to the start of a text.                          *)

H_804f0c00f ==
    <<"8", "0", "4", "f", "0", "c", "0", "0", "f">>

H_F9 ==
    <<"F", "F", "F", "F", "F", "F", "F", "F", "F">>

H_f9 ==
    <<"f", "f", "f", "f", "f", "f", "f", "f", "1">>

H_mixed ==
    <<"0", "0", "A", "B", "c", "d", "e", "f", "0">>

H_zero ==
    <<"0", "0", "0", "0", "0", "0", "0", "0", "0">>

P_a ==
    <<"a">>

P_ab ==
    <<"a", "b">>

P_a_b ==
    <<"a", " ", "b">>

P_abc_ ==
    <<"a", "b", "c", " ">>

P_abcde ==
    <<"a", "b", "c", "d", "e">>

\* the counts asked of hex: the grammar uses 6 and 8
HexCounts == 0..8

\* up to nine hex digits of either case, then nothing, a space, a letter
\* that is no hex digit, or a space and a digit
HexTexts ==
    {Take(h, k) \o x :
        h \in {H_804f0c00f, H_F9, H_f9, H_mixed, H_zero}, k \in 0..9,
        x \in {<<>>, <<" ">>, <<"g">>, <<" ", "1">>}}

\* the widths asked of padded: the grammar uses 2, 17 and 25
PaddedWidths == 0..MaxWidth \cup {2, 17, 25}

\* spaces and a content, and rows of the memory map and of the linker
\* generated symbols
PaddedTexts ==
    {Spaces(p) \o c :
        p \in 0..MaxPad, c \in {<<>>, P_a, P_ab, P_a_b, P_abc_, P_abcde}}
    \cup {L_mem_init, L_mem_debug, L_link_entry, L_link_ctors, L_almost_linker}

FieldTexts == HexTexts \cup PaddedTexts

InitField ==
    /\ input \in FieldTexts
    /\ terminator = <<>>
    /\ result = Fail
    /\ pc = "start"
    /\ NoLines
    /\ NoWalk

\* hex(count) on the input; the result keeps the count it was asked
ParseHex ==
    /\ pc = "start"
    /\ \E count \in HexCounts :
          result' = [count |-> count, out |-> hex(count, input)]
    /\ pc' = "hex"
    /\ UNCHANGED <<input, terminator, text, slots, saved, collected, walk>>

\* padded(len) on the input; the result keeps the width and the error
ParsePadded ==
    /\ pc = "start"
    /\ \E len \in PaddedWidths :
          result' = [len |-> len, out |-> padded(len, input),
                     error |-> padded_error(len, input)]
    /\ pc' = "padded"
    /\ UNCHANGED <<input, terminator, text, slots, saved, collected, walk>>

NextField == ParseHex \/ ParsePadded

SpecField == InitField /\ [][NextField]_vars


---------------------------------------------------------------------------
(* progress.rs: the sizes of code and data.  The lines parse_lines        *)
(* returned are walked in order; a section title opens a section, an       *)
(* empty line closes it, and the size of a parent row is added to the      *)
(* total its section belongs to.                                           *)

\* longest sequence of lines handed to the walk
MaxWalk == 4

WalkTitles ==
    {N_text \o T_section_layout, L_sec_title, N_data \o T_section_layout,
     N_debug \o T_section_layout}

WalkRows ==
    {L_sec_parent, L_sec_parent_file, L_sec_parent_section, L_sec_child}

WalkLineTexts == {<<>>, L_mem_init} \cup WalkTitles \cup WalkRows

\* the Line values of those texts, as parse_lines maps them
WalkLines == {line(l).val : l \in WalkLineTexts}

WalkInputs == SeqsUpTo(WalkLines, MaxWalk)

\* u32 addition: the sum modulo 2^32, and whether it left the width
add_u32(a, b) ==
    LET lo == a[2] + b[2]
        hi == a[1] + b[1] + (lo \div Half)
    IN  [val |-> <<hi % Half, lo % Half>>, overflow |-> hi >= Half]

\* a += b: past the width a debug build panics and a release build wraps
add_assign(a, b) ==
    IF add_u32(a, b).overflow
    THEN {[panic |-> TRUE, val |-> a], [panic |-> FALSE, val |-> add_u32(a, b).val]}
    ELSE {[panic |-> FALSE, val |-> add_u32(a, b).val]}

\* a variant of arm without the arm for rows named by a section
arm_without_section_rows(sec, l) ==
    IF l.tag = "Empty" THEN "clear"
    ELSE IF l.tag = "SectionTitle" THEN "title"
    ELSE IF l.tag = "SectionSymbol" /\ l.symbol.data.tag = "Parent"
    THEN IF sec # None /\ sec[1].tag \in {"Text", "Init"} THEN "code"
         ELSE IF sec = None \/ sec[1].tag = "Unknown" THEN "skip"
         ELSE "data"
    ELSE "skip"

\* the arm of the match a line takes, in the order the arms are written
arm(sec, l) ==
    IF l.tag = "Empty" THEN "clear"
    ELSE IF l.tag = "SectionTitle" THEN "title"
    ELSE IF l.tag = "SectionSymbol" /\ l.symbol.id.tag = "Section" THEN "skip"
    ELSE IF l.tag = "SectionSymbol" /\ l.symbol.data.tag = "Parent"
    THEN IF sec # None /\ sec[1].tag \in {"Text", "Init"} THEN "code"
         ELSE IF sec = None \/ sec[1].tag = "Unknown" THEN "skip"
         ELSE "data"
    ELSE "skip"

\* the state after let lines = parse_lines(input)?, before the loop
InitWalk ==
    /\ collected \in {[ok |-> TRUE, val |-> ls] : ls \in WalkInputs}
    /\ text = <<>>
    /\ slots = <<>>
    /\ saved = None
    /\ pc = "walk"
    /\ NoInput
    /\ NoWalk

\* one turn of for line in lines
WalkLine ==
    /\ pc = "walk"
    /\ walked < Len(collected.val)
    /\ LET l == collected.val[walked + 1]
           a == arm(section, l)
           kept(v) == {[panic |-> FALSE, val |-> v]}
       IN  /\ section' = IF a = "clear" THEN None
                         ELSE IF a = "title" THEN Some(l.section)
                         ELSE section
           /\ \E c \in IF a = "code"
                       THEN add_assign(code_size, l.symbol.data.size)
                       ELSE kept(code_size),
                 d \in IF a = "data"
                       THEN add_assign(data_size, l.symbol.data.size)
                       ELSE kept(data_size) :
                 /\ code_size' = c.val
                 /\ data_size' = d.val
                 /\ pc' = IF c.panic \/ d.panic THEN "panic" ELSE "walk"
    /\ walked' = walked + 1
    /\ UNCHANGED <<input, terminator, result, text, slots, saved, collected>>

\* the block ends with the pair (code_size, data_size)
WalkEnd ==
    /\ pc = "walk"
    /\ walked = Len(collected.val)
    /\ result' = [code_size |-> code_size, data_size |-> data_size]
    /\ pc' = "progress"
    /\ UNCHANGED <<input, terminator, text, slots, saved, collected, walk>>

NextWalk == WalkLine \/ WalkEnd

SpecWalk == InitWalk /\ [][NextWalk]_vars
---------------------------------------------------------------------------
(* Properties of line().                                                   *)

\* what line() classifies: the input without its trailing terminators
Stripped == trim_end_matches(input \o terminator, T_crlf)

\* the alternatives whose recognizer consumes all of s
FullMatches(s) ==
    {k \in 1..15 : recognizer(k, s).ok /\ recognizer(k, s).rest = <<>>}

\* the alternatives whose recognizer matches a prefix of s, all of s or less
PrefixMatches(s) == {k \in 1..15 : recognizer(k, s).ok}

\* the alternatives of line() that succeed on s
Succeeding(s) == {k \in 1..15 : line_alt(k, s).ok}

First(S) == CHOOSE k \in S : \A j \in S : k <= j

VariantOrder ==
    <<"Empty", "TreeTitle", "TreeNode", "SectionTitle", "SectionColumns0",
      "SectionColumns1", "SectionSeparator", "SectionSymbol", "MemoryTitle",
      "MemoryColumns0", "MemoryColumns1", "MemoryEntry", "MemoryEntry",
      "LinkerTitle", "LinkerEntry">>

\* C1: line() returns the variant of the first alternative, in the order
\* Empty ... LinkerEntry, whose recognizer consumes the whole line; a
\* recognizer that matches a proper prefix only is never accepted, on success
\* nothing remains, and with no full match the result is a parse error.
LineFirstFullMatch ==
    pc = "line" =>
        IF FullMatches(Stripped) = {}
        THEN ~result.ok
        ELSE /\ result.ok
             /\ result.rest = <<>>
             /\ result.val = recognizer(First(FullMatches(Stripped)), Stripped).val
             /\ result.val.tag = VariantOrder[First(FullMatches(Stripped))]
             /\ First(FullMatches(Stripped)) = 12
                    => result.val.entry.data.tag = "Main"
             /\ First(FullMatches(Stripped)) = 13
                    => result.val.entry.data.tag = "Debug"

\* a line is classified by a later alternative although an earlier
\* recognizer matches a proper prefix of it
LinePrefixPassedOver ==
    /\ pc = "line"
    /\ result.ok
    /\ result.val.tag = "LinkerEntry"
    /\ \E k \in PrefixMatches(Stripped) : k < 15

\* C2: for every line at most one of the fifteen alternatives of line()
\* succeeds, so the result does not depend on the order they are tried in.
LineAlternativesExclusive ==
    pc = "line" =>
        /\ Cardinality(Succeeding(Stripped)) <= 1
        /\ result.ok <=> Succeeding(Stripped) # {}
        /\ \A k \in Succeeding(Stripped) : result = line_alt(k, Stripped)

\* one alternative succeeds on a line of which another recognizer matches
\* a prefix
LineOneOfTwoSucceeds ==
    /\ pc = "line"
    /\ Cardinality(Succeeding(Stripped)) = 1
    /\ Cardinality(PrefixMatches(Stripped)) = 2
    /\ result.ok

---------------------------------------------------------------------------
(* Properties of parse_lines.                                              *)

\* C4: classifying the lines on several workers in any interleaving and
\* collecting by position yields the sequence of classifying them one after
\* another: the result for line i depends on the text of line i only.
ConcurrentMatchesSequential ==
    /\ \A i \in 1..Len(text) :
          slots[i].state \in {"ok", "err"} => slots[i] = Mapped(line(text[i]))
    /\ (pc = "done" /\ collected.ok) =>
          collected.val = [i \in 1..Len(text) |-> line(text[i]).val]

\* the last line of a text is classified before the first
LastLineMappedFirst ==
    /\ pc = "map"
    /\ Len(text) >= 2
    /\ slots[1] = Pending
    /\ slots[Len(text)].state = "ok"
    /\ text[1] # text[Len(text)]

\* C5: parse_lines returns Ok with one Line per input line, in input order,
\* when every line classifies, and an error value, never a partial sequence,
\* when a line fails; a failing line changes no other line's classification.
ParseLinesAllOrError ==
    pc = "done" =>
        IF \A i \in 1..Len(text) : line(text[i]).ok
        THEN /\ collected.ok
             /\ Len(collected.val) = Len(text)
             /\ \A i \in 1..Len(text) : collected.val[i] = line(text[i]).val
        ELSE /\ ~collected.ok
             /\ DOMAIN collected = {"ok", "err"}
             /\ \E i \in 1..Len(text) :
                   ~line(text[i]).ok /\ collected.err = text[i]
             /\ \A i \in 1..Len(text) :
                   slots[i].state = "ok" => slots[i].val = line(text[i]).val

\* a text with a failing line and a classified line has been collected
ParseLinesErrorBesideOk ==
    /\ pc = "done"
    /\ ~collected.ok
    /\ \E i \in 1..Len(text) : slots[i].state = "ok"
    /\ \E i \in 1..Len(text) : slots[i].state = "dropped"

---------------------------------------------------------------------------
(* Properties of identifier and section_name.                              *)

IsCIdent(s) ==
    /\ s # <<>>
    /\ s[1] \in Alpha \cup {"_"}
    /\ \A i \in 2..Len(s) : s[i] \in Alnum \cup {"_"}

IsDigits(s) == s # <<>> /\ \A i \in 1..Len(s) : s[i] \in Digit

\* the position of the first '$' of s, 0 when it has none
DollarAt(s) ==
    IF \E i \in 1..Len(s) : s[i] = "$"
    THEN CHOOSE i \in 1..Len(s) :
            s[i] = "$" /\ \A j \in 1..(i - 1) : s[j] # "$"
    ELSE 0

NameOf(s) == IF DollarAt(s) = 0 THEN s ELSE Take(s, DollarAt(s) - 1)

SuffixOf(s) == IF DollarAt(s) = 0 THEN <<>> ELSE Drop(s, DollarAt(s))

\* a C identifier, optionally followed by $<digits>
IsNamedForm(s) ==
    IsCIdent(NameOf(s)) /\ (DollarAt(s) = 0 \/ IsDigits(SuffixOf(s)))

DotlessExceptionSpellings == {s \in ExceptionSpellings : s[1] # "."}

\* the section an exception-table spelling names
ExceptionName(s) ==
    IF \E i \in 1..Len(s) : s[i] = "i" THEN SN("ExTabIndex") ELSE SN("ExTab")

\* C6, as stated: every C identifier optionally followed by $<digits> is
\* Named{name, instance}, never Mangled, with instance None exactly when
\* there is no suffix.
NamedNeverMangled ==
    (pc = "identifier" /\ IsNamedForm(input)) =>
        /\ result.ok
        /\ result.val.tag = "Named"
        /\ result.val.name = NameOf(input)
        /\ (result.val.instance = None) <=> (DollarAt(input) = 0)

\* C6, amended: a C identifier optionally followed by $<digits> is
\* Named{name, instance}, instance None without a suffix and Some(N) for $N,
\* except that a text that is an exception-table spelling is that Section,
\* and a text whose suffix exceeds 32 bits is Mangled; Mangled is produced
\* for no other text of the named form.
NamedUnlessSectionOrOverflow ==
    pc = "identifier" =>
        /\ IsNamedForm(input) =>
            /\ result.ok
            /\ result.rest = <<>>
            /\ IF input \in DotlessExceptionSpellings
               THEN /\ result.val.tag = "Section"
                    /\ result.val.name = ExceptionName(input)
                    /\ result.val.idx = None
               ELSE IF DollarAt(input) # 0 /\ parse_u32(SuffixOf(input), 10) = None
               THEN /\ result.val.tag = "Mangled"
                    /\ result.val.name = input
               ELSE /\ result.val.tag = "Named"
                    /\ result.val.name = NameOf(input)
                    /\ result.val.instance =
                          IF DollarAt(input) = 0 THEN None
                          ELSE parse_u32(SuffixOf(input), 10)
        /\ input = N_finfo =>
              result.val = [tag |-> "Named", name |-> N_finfo, instance |-> None]
        /\ input = N_finfo \o X_i221 =>
              result.val = [tag |-> "Named", name |-> N_finfo,
                            instance |-> Some(<<0, 221>>)]

\* finfo$221 has been classified as Named
NamedWithInstance ==
    /\ pc = "identifier"
    /\ input = N_finfo \o X_i221
    /\ result.ok
    /\ result.val.tag = "Named"
    /\ result.val.instance # None

\* @stringBase followed by digits that fit 8 bits
IsStringBaseText(s) ==
    /\ IsPrefix(T_stringBase, s)
    /\ IsDigits(Drop(s, Len(T_stringBase)))
    /\ parse_u8(Drop(s, Len(T_stringBase))) # None

\* C7, as stated: every text @stringBase<digits>, the digits fitting 8 bits,
\* is classified as StringBase{idx} with idx the value of the digits.
StringBaseClassified ==
    (pc = "identifier" /\ IsStringBaseText(input)) =>
        /\ result.ok
        /\ result.val.tag = "StringBase"
        /\ Some(result.val.idx) = parse_u8(Drop(input, Len(T_stringBase)))

\* @stringBase0 has been classified as a mangled name
StringBaseMangled ==
    /\ pc = "identifier"
    /\ input = T_stringBase \o X_d0
    /\ result.ok
    /\ result.val.tag = "Mangled"
    /\ result.val.name = input

\* the section a fixed name or an exception-table spelling names
SpellingName(n) ==
    CASE n \in ExceptionSpellings -> ExceptionName(n)
      [] n = N_bss -> SN("Bss")
      [] n = N_ctors -> SN("Ctors")
      [] n = N_data -> SN("Data")
      [] n = N_dtors -> SN("Dtors")
      [] n = N_init -> SN("Init")
      [] n = N_rodata -> SN("RoData")
      [] n = N_sbss2 -> SN("SBss2")
      [] n = N_sbss -> SN("SBss")
      [] n = N_sdata2 -> SN("SData2")
      [] n = N_sdata -> SN("SData")
      [] n = N_text -> SN("Text")

\* the digits of s without their leading zeros
RECURSIVE Significant(_)
Significant(s) ==
    IF Len(s) > 1 /\ s[1] = "0" THEN Significant(Drop(s, 1)) ELSE s

\* the value of at most three digits
RECURSIVE Decimal(_)
Decimal(s) ==
    IF s = <<>> THEN 0
    ELSE Decimal(Take(s, Len(s) - 1)) * 10 + DigitValue(s[Len(s)])

FitsU8(s) == Len(Significant(s)) <= 3 /\ Decimal(Significant(s)) <= 255

\* the text after ".." n "."
SymbolDigits(n) == Drop(input, Len(T_dotdot) + Len(n) + 1)

\* the input is ".." n "." <digits>
IsSymbolOf(n) ==
    /\ IsPrefix(T_dotdot \o n \o <<".">>, input)
    /\ IsDigits(SymbolDigits(n))

\* C8, as stated: ..<section-name>.<digits> is Section{name, Some(digits)},
\* and ..text.3 is Section{Text, Some(3)}.
SectionSymbolIndexed ==
    (pc = "identifier" /\ input = T_dotdot \o N_dotless_text \o X_3) =>
        /\ result.ok
        /\ result.val.tag = "Section"
        /\ result.val.name = SN("Text")
        /\ result.val.idx = Some(<<0, 3>>)

\* C8, amended: ".." followed by a section name in its own spelling (a
\* fixed name with its leading dot, or an exception-table spelling), "." and
\* digits of a value up to 255 is Section{name, Some(value)}, so ...text.3
\* is Section{Text, Some(3)}; with a larger value, and for ..text.3, the
\* text is Section{Unknown(text after the first dot), None}; an Unknown name
\* never has an idx.
SectionSymbolDotted ==
    pc = "identifier" =>
        /\ \A n \in FixedSpellings \cup ExceptionSpellings :
              IsSymbolOf(n) =>
                /\ result.ok
                /\ result.rest = <<>>
                /\ result.val.tag = "Section"
                /\ IF FitsU8(SymbolDigits(n))
                   THEN /\ result.val.name = SpellingName(n)
                        /\ result.val.idx =
                              Some(<<0, Decimal(Significant(SymbolDigits(n)))>>)
                   ELSE /\ result.val.name = Unknown(Drop(input, 1))
                        /\ result.val.idx = None
        /\ input = T_dotdot \o N_text \o X_3 =>
              result.val = [tag |-> "Section", name |-> SN("Text"),
                            idx |-> Some(<<0, 3>>)]
        /\ input = T_dotdot \o N_dotless_text \o X_3 =>
              result.val = [tag |-> "Section",
                            name |-> Unknown(N_text \o X_3), idx |-> None]
        /\ (result.ok /\ result.val.tag = "Section"
                /\ result.val.name.tag = "Unknown") => result.val.idx = None

\* ...text.3 has been classified as the section Text with index 3
SectionSymbolText3 ==
    /\ pc = "identifier"
    /\ input = T_dotdot \o N_text \o X_3
    /\ result.ok
    /\ result.val.tag = "Section"
    /\ result.val.idx = Some(<<0, 3>>)

\* "." t, t a run of letters, digits, underscores and dots, that is no
\* fixed name and no exception-table spelling
IsUnknownToken(s) ==
    /\ Len(s) >= 2
    /\ s[1] = "."
    /\ \A i \in 2..Len(s) : s[i] \in UnknownChar
    /\ s \notin FixedSpellings \cup ExceptionSpellings

\* C9, as stated: for every token "." t that is no fixed name and no
\* exception-table spelling, section_name consumes the whole token and
\* yields Unknown(t), also when the token extends a fixed name.
UnknownFallback ==
    (pc = "section_name" /\ IsUnknownToken(input)) =>
        /\ result.ok
        /\ result.rest = <<>>
        /\ result.val = Unknown(Drop(input, 1))

\* section_name has taken .text2 as Text and left the 2
FixedNameTakesPrefix ==
    /\ pc = "section_name"
    /\ input = N_text \o <<"2">>
    /\ result.ok
    /\ result.val = SN("Text")
    /\ result.rest = <<"2">>

---------------------------------------------------------------------------
(* Properties of the debug rows of the memory map.                         *)

\* the name field of a row: its first 17 columns without the padding
NameField(s) == SubSeq(s, SpanFrom(s, 1, {" "}) + 1, 17)

DebugAliases ==
    {<<N_debug, "Main">>, <<N_line, "Line">>, <<N_debug_info, "Info">>,
     <<N_debug_line, "Info">>, <<N_debug_abbrev, "Abbrev">>,
     <<N_debug_aranges, "Aranges">>, <<N_debug_sfnames, "SfNames">>,
     <<N_debug_srcinfo, "SrcInfo">>, <<N_debug_str, "Str">>}

\* C10, as stated: a name field that is exactly .debug, .line, .debug_info,
\* .debug_line, .debug_abbrev, .debug_aranges, .debug_sfnames,
\* .debug_srcinfo or .debug_str maps to Main, Line, Info, Info, Abbrev,
\* Aranges, SfNames, SrcInfo, Str; .debug_line never maps to Line and no
\* other name is accepted.
DebugNameExact ==
    pc = "line" =>
        /\ \A a \in DebugAliases :
              Stripped = PadLeft(a[1], 17) \o Spaces(11) \o T_debug_numbers =>
                /\ result.ok
                /\ result.val.tag = "MemoryEntry"
                /\ result.val.entry.data.tag = "Debug"
                /\ result.val.entry.data.name = a[2]
        /\ (result.ok /\ result.val.tag = "MemoryEntry"
                /\ result.val.entry.data.tag = "Debug") =>
              \E a \in DebugAliases :
                /\ NameField(Stripped) = a[1]
                /\ result.val.entry.data.name = a[2]

\* a debug row whose name field is .line2 has been accepted as Line
DebugLine2Accepted ==
    /\ pc = "line"
    /\ result.ok
    /\ result.val.tag = "MemoryEntry"
    /\ result.val.entry.data.tag = "Debug"
    /\ result.val.entry.data.name = "Line"
    /\ NameField(Stripped) = N_line2


---------------------------------------------------------------------------
(* Properties of the rows of the memory map.                               *)

\* the parser consumed all of its input
Consumes(r) == r.ok /\ r.rest = <<>>

\* C11: no line is consumed entirely by both memory_table::entry and
\* memory_table::debug_entry, whatever name its 17-column field holds; a
\* classified row is a Main row exactly when entry consumes the line and a
\* Debug row exactly when debug_entry does.
MemoryRowsDisjoint ==
    pc = "line" =>
        /\ ~(/\ Consumes(memory_table_entry(Stripped))
             /\ Consumes(debug_entry(Stripped)))
        /\ (result.ok /\ result.val.tag = "MemoryEntry") =>
               /\ result.val.entry.data.tag = "Main"
                      <=> Consumes(memory_table_entry(Stripped))
               /\ result.val.entry.data.tag = "Debug"
                      <=> Consumes(debug_entry(Stripped))

\* a row in the layout of the main rows whose field holds the debug name
\* .line, which section_name accepts as an unknown name
DebugNameInMainRow ==
    /\ pc = "line"
    /\ result.ok
    /\ result.val.tag = "MemoryEntry"
    /\ result.val.entry.data.tag = "Main"
    /\ result.val.entry.data.name = Unknown(SubSeq(N_line, 2, Len(N_line)))
    /\ NameField(Stripped) = N_line
    /\ debug_section_name(NameField(Stripped)).ok
    /\ ~debug_entry(Stripped).ok

---------------------------------------------------------------------------
(* Properties of the nodes of the tree.                                    *)

\* the decimal numbers among the depth fields that fit u32, with their value
DepthValues ==
    {<<X_d0, <<0, 0>> >>, <<D_19, <<0, 19>> >>, <<D_007, <<0, 7>> >>,
     <<D_65536, <<1, 0>> >>, <<D_max, <<65535, 65535>> >>}

\* line s is a node line with n leading spaces, depth field d and rest b
IsNodeLine(s, n, d, b) == s = Spaces(n) \o d \o <<"]", " ">> \o b

\* C12: the depth of a tree node is the decimal number printed before "] ",
\* whatever the number of leading spaces; a line whose depth field is not a
\* decimal number that fits u32 fails.
DepthIsPrintedNumber ==
    pc = "line" =>
        \A n \in 0..MaxIndent, d \in DepthFields, b \in NodeBodies :
            IsNodeLine(Stripped, n, d, b) =>
                IF \E p \in DepthValues : p[1] = d
                THEN /\ result.ok
                     /\ result.val.tag = "TreeNode"
                     /\ \A p \in DepthValues :
                            p[1] = d => result.val.node.depth = p[2]
                ELSE ~result.ok

\* depth 19 is read from a line that is not indented at all
DepthOfUnindentedLine ==
    /\ pc = "line"
    /\ IsNodeLine(Stripped, 0, D_19, B_object)
    /\ result.ok
    /\ result.val.node.depth = <<0, 19>>

\* the node of the line >>> UNREFERENCED DUPLICATE __dt__15CMemoryInStreamFv
DuplicateIdentifierNode ==
    [tag |-> "TreeNode",
     node |-> [depth |-> <<0, 16>>,
               data |-> [tag |-> "DuplicateIdentifier",
                         id |-> [tag |-> "Named", name |-> N_dt,
                                 instance |-> None]]]]

\* the node of the line >>> (func,weak) found in Kyoto_CW1.a CMemoryInStream.cpp
DuplicateSpecifierNode ==
    [tag |-> "TreeNode",
     node |-> [depth |-> <<0, 16>>,
               data |-> [tag |-> "DuplicateSpecifier",
                         spec |-> [type |-> "Function", scope |-> "Weak",
                                   origin |-> [obj |-> N_Kyoto,
                                               src |-> Some(N_CMemoryInStream),
                                               asm |-> FALSE]]]]]

\* C13: in any sequence of lines a ">>> UNREFERENCED DUPLICATE <identifier>"
\* line classifies as a tree node of its own with DuplicateIdentifier and a
\* ">>> (<type>,<scope>) found in <origin>" line as a tree node of its own
\* with DuplicateSpecifier, whatever the lines before and after; the two are
\* never merged into one node, and a missing partner makes no line fail.
DuplicateLinesStandAlone ==
    /\ \A i \in 1..Len(text) :
          slots[i].state \in {"ok", "err"} =>
              /\ text[i] = L_tree_dup_id =>
                     slots[i] = [state |-> "ok", val |-> DuplicateIdentifierNode]
              /\ text[i] = L_tree_dup_spec =>
                     slots[i] = [state |-> "ok", val |-> DuplicateSpecifierNode]
    /\ (pc = "done"
        /\ \A i \in 1..Len(text) : text[i] \in {L_tree_dup_id, L_tree_dup_spec})
           => /\ collected.ok
              /\ Len(collected.val) = Len(text)
              /\ \A i \in 1..Len(text) :
                    collected.val[i] =
                        IF text[i] = L_tree_dup_id THEN DuplicateIdentifierNode
                        ELSE DuplicateSpecifierNode

\* a text of duplicate specifier lines only, none with its identifier line,
\* has been collected
DuplicateSpecifierAlone ==
    /\ pc = "done"
    /\ Len(text) >= 2
    /\ \A i \in 1..Len(text) : text[i] = L_tree_dup_spec
    /\ collected.ok
    /\ Len(collected.val) = Len(text)

---------------------------------------------------------------------------
(* Properties of origins.                                                  *)

\* the origin of a classified tree object line or section symbol row
OriginOf(v) ==
    IF v.tag = "TreeNode" THEN v.node.data.spec.origin ELSE v.symbol.origin

\* the line ends in origin text x and classifies with origin o
EndsInOrigin(x, o) ==
    \A h \in OriginHeads :
        Stripped = h \o x =>
            /\ result.ok
            /\ result.val.tag \in {"TreeNode", "SectionSymbol"}
            /\ OriginOf(result.val) = o

\* C14, as stated: a tree object line or section symbol row ending in
\* <obj>, in <obj> <src> or in <obj> <src> (asm) classifies, with the
\* origin {obj, None, false}, {obj, Some(src), false}, {obj, Some(src), true}.
OriginThreeShapes ==
    pc = "line" =>
        \A o \in ObjFiles, s \in SrcFiles :
            /\ EndsInOrigin(o, [obj |-> o, src |-> None, asm |-> FALSE])
            /\ EndsInOrigin(o \o <<" ">> \o s,
                            [obj |-> o, src |-> Some(s), asm |-> FALSE])
            /\ EndsInOrigin(o \o <<" ">> \o s \o T_asm,
                            [obj |-> o, src |-> Some(s), asm |-> TRUE])

\* C14: a tree object line or section symbol row ending in "<obj> " (the
\* object file and the space after it), in "<obj> <src>" or in
\* "<obj> <src> (asm)" classifies, with the origin {obj, None, false},
\* {obj, Some(src), false}, {obj, Some(src), true}; a line ending in the
\* object file without the space after it, or in a file name without
\* extension, fails.
OriginShapesWithSpace ==
    pc = "line" =>
        /\ \A o \in ObjFiles, s \in SrcFiles :
              /\ EndsInOrigin(o \o <<" ">>,
                              [obj |-> o, src |-> None, asm |-> FALSE])
              /\ EndsInOrigin(o \o <<" ">> \o s,
                              [obj |-> o, src |-> Some(s), asm |-> FALSE])
              /\ EndsInOrigin(o \o <<" ">> \o s \o T_asm,
                              [obj |-> o, src |-> Some(s), asm |-> TRUE])
        /\ \A h \in OriginHeads, o \in ObjFiles, s \in SrcFiles :
              Stripped \in {h \o o, h \o F_os, h \o F_os \o <<" ">>,
                            h \o o \o <<" ">> \o F_os, h \o F_os \o <<" ">> \o s}
                  => ~result.ok

\* a section symbol row ends in the object file and one space
ObjectFileThenSpace ==
    /\ pc = "line"
    /\ Stripped = H_row \o F_msl_a \o <<" ">>
    /\ result.ok
    /\ result.val.symbol.origin.src = None

---------------------------------------------------------------------------
(* Properties of the rows of a section table.                              *)

Named(n) == [tag |-> "Named", name |-> n, instance |-> None]

RowSizeValues ==
    {<<Z_0, <<0, 0>> >>, <<Z_f0, <<0, 240>> >>, <<Z_ABcd, <<0, 43981>> >>}

RowAlignValues == {<<A_4, <<0, 4>> >>, <<A_16, <<0, 16>> >>, <<A_04, <<0, 4>> >>}

\* the line classified as a section symbol with the addresses of the rows
IsSymbolRow ==
    /\ result.ok
    /\ result.val.tag = "SectionSymbol"
    /\ result.val.symbol.addr = <<0, 592>>
    /\ result.val.symbol.virt_addr = <<32768, 13136>>

\* the text has "(entry of " somewhere
HasEntryOf(s) ==
    \E i \in 1..Len(s) : IsPrefix(T_entry_of, Drop(s, i - 1))

\* C15, as stated: a row whose identifier is followed by (entry of P), after
\* the six-zero size and the address fields, classifies as a section symbol
\* with Child{parent: P}, and no other row does; a row with a 6-digit size,
\* a 2-character alignment and an identifier classifies with
\* Parent{size, align}, also when the size is 000000; addr is the first
\* 8-digit field and virt_addr the one after the size.
SymbolRowKind ==
    pc = "line" =>
        /\ \A f \in RowFiles, t \in RowTails, i \in RowNames,
              p \in {N_memset, N_deadbeef} :
              Stripped = SymbolRow(Z_0, f, ChildMiddle(i, p), t) =>
                  /\ IsSymbolRow
                  /\ result.val.symbol.data = [tag |-> "Child", parent |-> Named(p)]
                  /\ result.val.symbol.id = Named(i)
        /\ \A z \in RowSizeValues, a \in RowAlignValues, f \in RowFiles,
              t \in RowTails, i \in RowNames :
              Stripped = SymbolRow(z[1], f, ParentMiddle(a[1], i), t) =>
                  /\ IsSymbolRow
                  /\ result.val.symbol.data =
                         [tag |-> "Parent", size |-> z[2], align |-> a[2]]
                  /\ result.val.symbol.id = Named(i)
        /\ (/\ result.ok
            /\ result.val.tag = "SectionSymbol"
            /\ result.val.symbol.data.tag = "Child") => HasEntryOf(Stripped)

\* a child row without file address whose identifier is eight hex digits
\* long fails
HexNamedChildRowFails ==
    /\ pc = "line"
    /\ Stripped = SymbolRow(Z_0, <<>>, ChildMiddle(N_deadbeef, N_memset), R_tail)
    /\ ~result.ok

UnusedMarker == <<" ", " ", "U", "N", "U", "S", "E", "D">>

---------------------------------------------------------------------------
(* Properties of the rows of the linker generated symbols.                 *)

\* the content of the first w columns of s without the leading spaces
FieldContent(s, w) == SubSeq(s, SpanFrom(s, 1, {" "}) + 1, w)

IsHex8(v) == Len(v) = 8 /\ \A i \in 1..8 : v[i] \in HexDigit

\* C17, as stated: a line classifies as LinkerEntry exactly when it is a
\* 25-column field holding a right-justified C identifier, one space and
\* exactly 8 hex digits; name is the whole content of the field without the
\* padding and virt_addr the value of the digits in base 16.
LinkerEntryExact ==
    pc = "line" =>
        /\ (result.ok /\ result.val.tag = "LinkerEntry") =>
               /\ Len(Stripped) = 34
               /\ IsCIdent(FieldContent(Stripped, 25))
               /\ result.val.linker.name = FieldContent(Stripped, 25)
        /\ \A n \in LinkerFields, v \in LinkerAddresses :
               (/\ Stripped = PadLeft(n, 25) \o <<" ">> \o v
                /\ Len(n) <= 25
                /\ IsCIdent(n)
                /\ IsHex8(v))
                   => /\ result.ok
                      /\ result.val.tag = "LinkerEntry"
                      /\ result.val.linker.name = n
                      /\ result.val.linker.virt_addr = <<32847, 3072>>

\* the field holds _db_stack.addr and the row classifies with the name
\* _db_stack
LinkerNameCutShort ==
    /\ pc = "line"
    /\ Stripped = PadLeft(K_dotted, 25) \o <<" ">> \o V_804f0c00
    /\ result.ok
    /\ result.val.tag = "LinkerEntry"
    /\ result.val.linker.name = K_db_stack

---------------------------------------------------------------------------
(* Properties of the main rows of the memory map.                          *)

\* the section name a field content denotes: a fixed name, an
\* exception-table spelling, or Unknown for any other token "." t
DenotedName(n) ==
    IF n \in FixedSpellings \cup ExceptionSpellings THEN SpellingName(n)
    ELSE Unknown(Drop(n, 1))

IsSectionNameText(n) ==
    n \in FixedSpellings \cup ExceptionSpellings \/ IsUnknownToken(n)

\* C18, as stated: a line made of a 17-column field holding a right-justified
\* section name, two spaces and three 8-digit hex fields separated by single
\* spaces classifies as MemoryEntry{Main{name, virt_addr}, size, file_addr},
\* name being the section name the whole content of the field denotes and
\* virt_addr, size, file_addr the first, second and third hex field.
MainRowNamesWholeField ==
    pc = "line" =>
        \A n \in FixedSpellings \cup ExceptionSpellings \cup DebugFieldNames
                 \cup ExtendedNames :
            (/\ IsSectionNameText(n)
             /\ Len(n) <= 17
             /\ Stripped = PadLeft(n, 17) \o Spaces(2) \o T_main_numbers)
                => /\ result.ok
                   /\ result.val.tag = "MemoryEntry"
                   /\ result.val.entry.data =
                          [tag |-> "Main", name |-> DenotedName(n),
                           virt_addr |-> <<32768, 12544>>]
                   /\ result.val.entry.size = <<0, 9128>>
                   /\ result.val.entry.file_addr = <<0, 448>>

\* the field holds .text2 and the row classifies with the name Text
MainRowNameCutShort ==
    /\ pc = "line"
    /\ Stripped = PadLeft(N_text \o <<"2">>, 17) \o Spaces(2) \o T_main_numbers
    /\ result.ok
    /\ result.val.tag = "MemoryEntry"
    /\ result.val.entry.data.name = SN("Text")

---------------------------------------------------------------------------
(* Properties of hex and padded.                                           *)

\* the value of at most four hex digits
RECURSIVE Hex16(_)
Hex16(d) ==
    IF d = <<>> THEN 0
    ELSE Hex16(Take(d, Len(d) - 1)) * 16 + DigitValue(d[Len(d)])

\* the value of at most eight hex digits, as two halves of 16 bits
HexValue(d) ==
    IF Len(d) <= 4 THEN <<0, Hex16(d)>>
    ELSE <<Hex16(Take(d, Len(d) - 4)), Hex16(Drop(d, Len(d) - 4))>>

\* the number of hex digits the text starts with
LeadingHex(s) == SpanFrom(s, 1, HexDigit)

\* C19, as stated: on a text that starts with exactly n hex digits, hex(n)
\* yields their value in base 16; with fewer or with more digits than n it
\* fails.
HexExactlyN ==
    (pc = "hex" /\ result.count >= 1) =>
        IF LeadingHex(input) = result.count
        THEN /\ result.out.ok
             /\ result.out.val = HexValue(Take(input, result.count))
        ELSE ~result.out.ok

\* C19: for 1 <= n <= 8, on a text that starts with at least n hex digits of
\* either case hex(n) takes the first n, yields their value in base 16
\* without overflow and leaves the rest, further hex digits included; on a
\* text that starts with fewer than n hex digits it fails; hex(0) fails.
HexFirstN ==
    pc = "hex" =>
        IF result.count >= 1 /\ LeadingHex(input) >= result.count
        THEN /\ result.out.ok
             /\ result.out.val = HexValue(Take(input, result.count))
             /\ result.out.rest = Drop(input, result.count)
             /\ (result.count = 8 /\ Take(input, 8) \in {Take(H_F9, 8), Take(H_f9, 8)})
                    => result.out.val = <<65535, 65535>>
             /\ (result.count = 8 /\ Take(input, 8) = Take(H_804f0c00f, 8))
                    => result.out.val = <<32847, 3072>>
        ELSE ~result.out.ok

\* hex(6) has taken six of nine digits and left three
HexLeavesDigits ==
    /\ pc = "hex"
    /\ result.count = 6
    /\ input = H_mixed
    /\ result.out.ok
    /\ result.out.val = <<0, 43981>>
    /\ result.out.rest = <<"e", "f", "0">>

\* the number of spaces the text starts with
LeadingSpaces(s) == SpanFrom(s, 1, {" "})

\* C20: on a text with p leading spaces, padded(w) consumes exactly w
\* characters and returns the w - p characters after the spaces when p <= w
\* and the text has at least w characters; it fails with the error "Padding
\* length is too large" when p > w, and fails when the text has fewer than w
\* characters; every failure is a recoverable nom::Err::Error, after which
\* the enclosing alternation tries its next alternative.
PaddedTakesWidth ==
    pc = "padded" =>
        /\ IF LeadingSpaces(input) <= result.len /\ Len(input) >= result.len
           THEN /\ result.out.ok
                /\ result.out.val =
                       SubSeq(input, LeadingSpaces(input) + 1, result.len)
                /\ Len(result.out.val) = result.len - LeadingSpaces(input)
                /\ result.out.rest = Drop(input, result.len)
                /\ result.error = None
           ELSE /\ ~result.out.ok
                /\ result.error # None
                /\ result.error[1].err = "Error"
                /\ LeadingSpaces(input) > result.len
                       <=> result.error[1].kind = "LengthValue"
                /\ LeadingSpaces(input) > result.len
                       => result.error[1].message = "Padding length is too large"
        /\ (input = L_almost_linker /\ result.len = 17) =>
               /\ ~result.out.ok
               /\ ~memory_table_entry(input).ok
               /\ ~debug_entry(input).ok
               /\ line(input).ok
               /\ line(input).val.tag = "LinkerEntry"

\* padded(17) has failed on a line that starts with twenty spaces
PaddingTooLarge ==
    /\ pc = "padded"
    /\ input = L_almost_linker
    /\ result.len = 17
    /\ ~result.out.ok
    /\ result.error = Some([err |-> "Error", kind |-> "LengthValue",
                            message |-> "Padding length is too large"])

---------------------------------------------------------------------------
(* Properties of the longer names of section_name.                         *)

\* C21: section_name consumes every spelling [.][_](extabindex|exidx)[_]
\* whole and yields ExTabIndex, every spelling [.][_]extab[_] whole and
\* yields ExTab, .sbss2 whole and yields SBss2, .sdata2 whole and yields
\* SData2: none of them gives the shorter name with characters left over,
\* and none gives Unknown.
LongestFixedNameWins ==
    pc = "section_name" =>
        /\ input \in ExceptionSpellings =>
               /\ result.ok
               /\ result.rest = <<>>
               /\ result.val =
                      IF \E i \in 1..Len(input) :
                             \/ IsPrefix(T_extabindex, Drop(input, i - 1))
                             \/ IsPrefix(T_exidx, Drop(input, i - 1))
                      THEN SN("ExTabIndex") ELSE SN("ExTab")
        /\ input = N_sbss2 =>
               result = Ok(SN("SBss2"), <<>>)
        /\ input = N_sdata2 =>
               result = Ok(SN("SData2"), <<>>)

\* ._extabindex_ has been consumed whole as ExTabIndex
ExtabindexConsumedWhole ==
    /\ pc = "section_name"
    /\ input = <<".", "_">> \o T_extabindex \o <<"_">>
    /\ result = Ok(SN("ExTabIndex"), <<>>)

---------------------------------------------------------------------------
(* Properties of the file address of a section symbol row.                 *)

\* the file address of a row built with file field f
FileAddressOf(f) == IF f = <<>> THEN None ELSE Some(<<14, 35156>>)

\* C22, as stated: in a section symbol row, parent or child form, file_addr
\* is Some(v) exactly when the row has a second 8-digit hex field and a
\* space directly after the virtual address, v being its value, and None
\* otherwise; with or without that field the row classifies with the same
\* addr, size, virt_addr, align and identifier.
FileAddressOptional ==
    pc = "line" =>
        /\ \A f \in RowFiles, t \in RowTails, i \in RowNames,
              p \in {N_memset, N_deadbeef} :
              Stripped = SymbolRow(Z_0, f, ChildMiddle(i, p), t) =>
                  /\ IsSymbolRow
                  /\ result.val.symbol.file_addr = FileAddressOf(f)
                  /\ result.val.symbol.id = Named(i)
                  /\ result.val.symbol.data.tag = "Child"
        /\ \A z \in RowSizeValues, a \in RowAlignValues, f \in RowFiles,
              t \in RowTails, i \in RowNames :
              Stripped = SymbolRow(z[1], f, ParentMiddle(a[1], i), t) =>
                  /\ IsSymbolRow
                  /\ result.val.symbol.file_addr = FileAddressOf(f)
                  /\ result.val.symbol.id = Named(i)
                  /\ result.val.symbol.data =
                         [tag |-> "Parent", size |-> z[2], align |-> a[2]]

\* a child row without file address fails, its identifier deadbeef being
\* read as the file address, while the same row with a file address
\* classifies
IdentifierReadAsFileAddress ==
    /\ pc = "line"
    /\ Stripped = SymbolRow(Z_0, <<>>, ChildMiddle(N_deadbeef, N_deadbeef),
                            <<" ">> \o R_tail)
    /\ ~result.ok
    /\ hex_sp(8, Drop(Stripped, 27)).ok
    /\ line(SymbolRow(Z_0, R_file \o <<" ">>,
                      ChildMiddle(N_deadbeef, N_deadbeef),
                      <<" ">> \o R_tail)).ok

---------------------------------------------------------------------------
(* Properties of the (asm) mark.                                           *)

\* the classified line carries an origin: in the specifier of a tree node
\* or in a section symbol
HasOrigin(v) ==
    \/ v.tag = "SectionSymbol"
    \/ /\ v.tag = "TreeNode"
       /\ v.node.data.tag \in {"Object", "DuplicateSpecifier"}

\* C23: in every origin of a classified line asm = true implies that src is
\* present, the line then ending in the source file and (asm); a line that
\* ends in an object file and (asm) with no source file between them is not
\* classified, so it yields no origin with asm = true.
AsmImpliesSource ==
    pc = "line" =>
        /\ (result.ok /\ HasOrigin(result.val)) =>
               /\ OriginOf(result.val).asm =>
                      /\ OriginOf(result.val).src # None
                      /\ IsSuffix(OriginOf(result.val).src[1] \o T_asm, Stripped)
               /\ OriginOf(result.val).src = None => ~OriginOf(result.val).asm
        /\ \A h \in OriginHeads, o \in ObjFiles \cup {F_os} :
               Stripped = h \o o \o T_asm => ~result.ok

\* a section symbol row ending in a source file and (asm) has been
\* classified with asm = true
AsmAfterSource ==
    /\ pc = "line"
    /\ Stripped = H_row \o F_msl_a \o <<" ">> \o F_printf_o \o T_asm
    /\ result.ok
    /\ result.val.symbol.origin.asm
    /\ result.val.symbol.origin.src = Some(F_printf_o)

---------------------------------------------------------------------------
(* The walk over the lines (progress.rs).                                  *)

\* the lines the loop has taken
Seen == SubSeq(collected.val, 1, walked)

\* the latest title or empty line among the first k lines, 0 when none
RECURSIVE LastMark(_)
LastMark(k) ==
    IF k = 0 THEN 0
    ELSE IF collected.val[k].tag \in {"Empty", "SectionTitle"} THEN k
    ELSE LastMark(k - 1)

\* the section in force after the first k lines
SectionAfter(k) ==
    IF LastMark(k) = 0 \/ collected.val[LastMark(k)].tag = "Empty" THEN None
    ELSE Some(collected.val[LastMark(k)].section)

CodeSections == {SN("Text"), SN("Init")}

\* the size line k adds to the total of the given kind, as a number
SizeCounted(k, kind) ==
    LET l == collected.val[k]
        s == SectionAfter(k - 1)
        in_kind == /\ s # None
                   /\ s[1].tag # "Unknown"
                   /\ (kind = "code") = (s[1] \in CodeSections)
    IN  IF /\ l.tag = "SectionSymbol"
           /\ l.symbol.data.tag = "Parent"
           /\ l.symbol.id.tag # "Section"
           /\ in_kind
        THEN l.symbol.data.size[1] * Half + l.symbol.data.size[2]
        ELSE 0

RECURSIVE SumCounted(_, _)
SumCounted(k, kind) ==
    IF k = 0 THEN 0 ELSE SumCounted(k - 1, kind) + SizeCounted(k, kind)

=============================================================================
